---------------------------- MODULE Spec2Model ----------------------------
(***************************************************************************)
(* Model of the connection broker of OpenUDS:                              *)
(*   - uds/REST/methods/connection.py   (Connection: the request router    *)
(*     and the result envelope),                                           *)
(*   - uds/transports/NX/nxbase.py      (BaseNXTransport.isAvailableFor:   *)
(*     the cached readiness probe).                                        *)
(* The collaborators the router calls and whose code is not part of the    *)
(* sources at hand (userServiceManager().getService, cryptoManager(),      *)
(* services.enableService, the cache, the ticket store, errors) are        *)
(* modelled from the specification and are marked so where defined.        *)
(*                                                                         *)
(* Python values are modelled as follows:                                  *)
(*   - a str is a sequence of text pieces, '' is << >>, + is \o;           *)
(*   - None is the record PyNone, other values carry a tag "t";            *)
(*   - a dict is a function from its keys.                                 *)
(***************************************************************************)
EXTENDS Integers, Sequences, FiniteSets, TLC

VARIABLES
    inst,       \* the service instances (UserService rows), in creation order
    cache,      \* the transport's readiness cache: address -> entry
    tickets,    \* the ticket store: live tickets, in issue order
    nreq,       \* number of requests served so far (the clock of 'date')
    last,       \* the last request served by the router and its outcome
    pending,    \* (user, service, transport) -> instances counted when a
                \* connect was answered "in preparation", -1 before that
    avail,      \* caller -> its isAvailableFor call: where it is, what it got
    hist,       \* address -> time since an outcome was stored, and the outcomes
    proc,       \* the concurrent request handlers of the resolver/broker
    poll,       \* the client that repeats one request: the request and its
                \* last two answers
    twin,       \* what is seen of a script request and of the same request
                \* made with another password ciphertext
    og,         \* the client of the provisioning backend (OpenGnsys) and what
                \* its last call did
    au,         \* an authenticator behind the REST handler: its networks, its
                \* users' instances, and what the last operation on it did
    mw          \* the redirect middleware: the no-redirect list its instances
                \* share, and what the last request through one of them did

vars == <<inst, cache, tickets, nreq, last, pending, avail, hist, proc, poll, twin, og, au, mw>>

-----------------------------------------------------------------------------
(* Bounds of the model *)

MaxInst == 3        \* capacity of the pool of instances
MaxReq == 3         \* requests served in one behaviour
MaxTickets == 2     \* tickets issued in one behaviour
MaxCalls == 2       \* calls of the provisioning-backend client in one behaviour
MaxOps == 2         \* operations on the authenticator in one behaviour
MaxRegistered == 2  \* paths registered as exceptions of the redirection

-----------------------------------------------------------------------------
(* Python values *)

PyNone == [t |-> "none"]
PyStr(s) == [t |-> "str", v |-> s]
PyInt(n) == [t |-> "int", v |-> n]
PyDict(d) == [t |-> "dict", v |-> d]

\* Python's truth value of None, an int or a str
PyTruthy(x) ==
    CASE x.t = "none" -> FALSE
      [] x.t = "int" -> x.v # 0
      [] x.t = "str" -> Len(x.v) # 0
      [] OTHER -> TRUE

HexDigit == <<"0", "1", "2", "3", "4", "5", "6", "7",
              "8", "9", "A", "B", "C", "D", "E", "F">>

RECURSIVE HexDigits(_)
\* the upper-case hexadecimal digits of n >= 0, most significant first
HexDigits(n) ==
    IF n < 16 THEN <<HexDigit[n + 1]>>
    ELSE HexDigits(n \div 16) \o <<HexDigit[(n % 16) + 1]>>

RECURSIVE ZeroPad(_, _)
ZeroPad(s, width) == IF Len(s) >= width THEN s ELSE ZeroPad(<<"0">> \o s, width)

\* ' (code {0:04X})'.format(errorCode)
FormatCode(errorCode) == <<" (code ">> \o ZeroPad(HexDigits(errorCode), 4) \o <<")">>

-----------------------------------------------------------------------------
(* uds.web.util.errors *)

SERVICE_IN_PREPARATION == 14

\* errors.errorString: the pre-defined message of an error code
errorString(code) ==
    IF code = SERVICE_IN_PREPARATION THEN <<"Service in preparation">>
    ELSE <<"Unknown error">>

-----------------------------------------------------------------------------
(* Connection.result: the result envelope *)

\* a flag written as a word instead of "0"/"1"
RetryableFlagWord(retryable) == IF retryable THEN "true" ELSE "false"

\* the 'retryable' entry of the envelope
RetryableFlag(retryable) == IF retryable THEN "1" ELSE "0"

\* whether result() adds the 'error' entry
ErrorPresent(error) == PyTruthy(error)

\* error as result() writes it: the message of an int code, str(error),
\* the code appended when it is not 0
ErrorText(error, errorCode) ==
    LET asStr == IF error.t = "int" THEN errorString(error.v) ELSE error.v
    IN  IF errorCode # 0 THEN asStr \o FormatCode(errorCode) ELSE asStr

result(res, error, errorCode, retryable, now) ==
    LET r0 == IF res.t # "none" THEN res ELSE PyStr(<<>>)
        base == [result |-> r0, date |-> now]
        withErr == IF ErrorPresent(error)
                   THEN base @@ ("error" :> ErrorText(error, errorCode))
                   ELSE base
    IN  withErr @@ ("retryable" :> RetryableFlag(retryable))

-----------------------------------------------------------------------------
(* The world of the broker: users, services, transports *)

Users == {"u1", "u2"}
Services == {"s1"}
Transports == {"t1"}

\* hasAccess(user, service) of the permission provider: u1 holds a grant
\* on s1, u2 holds none
HasAccess(user, idService) == user = "u1" /\ idService = "s1"

\* the transports bound to a logical service
TransportsOf(idService) == IF idService = "s1" THEN {"t1"} ELSE {}

ClientIp == "192.168.0.9"       \* self._request.ip

\* an instance's recorded connection source
NoSource == [ip |-> "", hostname |-> ""]

\* the network address of the i-th instance; 0 models an empty address
AddrOf(i) == i
Addrs == 1..MaxInst

-----------------------------------------------------------------------------
(* Exceptions *)

NoExc == [cls |-> "none", code |-> 0, msg |-> <<>>]
Exc(cls, code, msg) == [cls |-> cls, code |-> code, msg |-> msg]

\* ServiceNotReadyError(code=...): the codes of the resolver
CodeProvisioning == 1
CodeProbeFailed == 3
\* ServiceNotReadyError(): the code of an error raised without one
CodeDefault == 0

ServiceNotReadyError(code) == Exc("ServiceNotReadyError", code, <<"Service not ready">>)

-----------------------------------------------------------------------------
(* The readiness cache (uds.core.util.cache.Cache of the transport) *)

READY_CACHE_TIMEOUT == 30

NoEntry == [val |-> "None", ttl |-> 0]

\* cache.get(ip): the stored value while the entry lives, None otherwise
cacheGet(c, ip) == IF c[ip].ttl > 0 THEN c[ip].val ELSE "None"

\* cache.put(ip, val, validity)
cachePut(c, ip, val, validity) == [c EXCEPT ![ip] = [val |-> val, ttl |-> validity]]

\* d time units pass: every entry is d nearer to its expiry
cacheAge(c, d) ==
    [a \in DOMAIN c |-> IF c[a].ttl > d THEN [c[a] EXCEPT !.ttl = @ - d] ELSE NoEntry]

\* Python's truth value of the cached value: None and '' are false
ValTruthy(v) == v \notin {"None", ""}

-----------------------------------------------------------------------------
(* BaseNXTransport.isAvailableFor *)

\* a probe whose success is never reported nor remembered
isAvailableForNever(ready, c, ip, probe) ==
    IF ready \notin {"None", ""}
    THEN [ret |-> (ready = "Y"), cache |-> c, probed |-> FALSE]
    ELSE [ret |-> FALSE, cache |-> cachePut(c, ip, "N", READY_CACHE_TIMEOUT),
          probed |-> TRUE]

\* "if not ready": whether the probe is issued
MustProbe(ready) == ~ValTruthy(ready)

\* isAvailableFor once the cache answered (ready); probe is what
\* testServer(userService, ip, port) answers at this moment
isAvailableForWith(ready, c, ip, probe) ==
    IF MustProbe(ready)
    THEN IF probe = TRUE
         THEN [ret |-> TRUE, cache |-> cachePut(c, ip, "Y", READY_CACHE_TIMEOUT),
               probed |-> TRUE]
         ELSE [ret |-> (ready = "Y"),
               cache |-> cachePut(c, ip, "N", READY_CACHE_TIMEOUT),
               probed |-> TRUE]
    ELSE [ret |-> (ready = "Y"), cache |-> c, probed |-> FALSE]

isAvailableFor(c, ip, probe) == isAvailableForWith(cacheGet(c, ip), c, ip, probe)

-----------------------------------------------------------------------------
(* ServiceAssignmentResolver: userServiceManager().getService *)

\* a lookup that never finds the user's instance
locateUserServiceNone(ins, user, idService) == 0

\* the instance assigned to user for the service: its index, 0 when none
locateUserService(ins, user, idService) ==
    LET found == {i \in 1..Len(ins) : ins[i].owner = user /\ ins[i].service = idService}
    IN  IF found = {} THEN 0 ELSE CHOOSE i \in found : \A j \in found : i <= j

\* a new instance of the service for the user, provisioning
createUserService(ins, user, idService) ==
    Append(ins, [owner |-> user, service |-> idService, state |-> "provisioning",
                 ip |-> AddrOf(Len(ins) + 1), src |-> NoSource])

\* number of instances owned by user for the service
CountOf(ins, user, idService) ==
    Cardinality({i \in 1..Len(ins) : ins[i].owner = user /\ ins[i].service = idService})

\* the outcome of a resolution that raised
Raised(e, ins, c, calls) ==
    [exc |-> e, ip |-> 0, userService |-> 0, trans |-> "", itrans |-> FALSE,
     inst |-> ins, cache |-> c, calls |-> calls]

\* getService once the transport's availability is known (av): on success
\* the address of the instance ('' when the machine reports none yet,
\* modelled as 0) and the transport handle (None when no test was asked
\* for, or when the transport gives none)
getServiceTested(av, ins, us, idTransport, validate, env, calls) ==
    IF ~av.ret
    THEN Raised(ServiceNotReadyError(CodeProbeFailed), ins, av.cache,
                calls \o (IF av.probed THEN <<"isAvailableFor", "testServer">>
                          ELSE <<"isAvailableFor">>))
    ELSE [exc |-> NoExc,
          ip |-> IF env.fault = "noAddress" THEN 0 ELSE ins[us].ip,
          userService |-> us,
          trans |-> idTransport,
          itrans |-> validate /\ env.fault # "noHandle",
          inst |-> ins, cache |-> av.cache,
          calls |-> calls \o (IF av.probed THEN <<"isAvailableFor", "testServer">>
                              ELSE <<"isAvailableFor">>)]

\* getService once the user's instance is looked up (us, 0 when none)
getServiceLocated(us, ins, c, user, idService, idTransport, validate, env, calls) ==
    IF us = 0
    THEN IF Len(ins) < MaxInst
         THEN Raised(ServiceNotReadyError(CodeProvisioning),
                     createUserService(ins, user, idService), c, calls)
         ELSE Raised(Exc("MaxServicesReached", 0, <<"No capacity">>), ins, c, calls)
    ELSE IF ins[us].state # "ready"
    THEN Raised(ServiceNotReadyError(CodeProvisioning), ins, c, calls)
    ELSE getServiceTested(isAvailableFor(c, ins[us].ip, env.probe),
                          ins, us, idTransport, validate, env, calls)

\* getService(user, os, srcIp, idService, idTransport, validate):
\* env.fault and env.probe are what the surroundings do during the call
getServiceCalled(ins, c, user, idService, idTransport, validate, env, calls) ==
    IF env.fault = "resolver"
    THEN Raised(Exc("Exception", 0, <<"internal error">>), ins, c, calls)
    ELSE IF env.fault = "resolverEmpty"
    THEN Raised(Exc("Exception", 0, <<>>), ins, c, calls)
    ELSE IF idService \notin Services \/ idTransport \notin TransportsOf(idService)
    THEN Raised(Exc("NotFound", 0, <<"Service or transport not found">>), ins, c, calls)
    ELSE IF validate /\ ~HasAccess(user, idService)
    THEN Raised(Exc("AccessDenied", 0, <<"Access denied">>), ins, c, calls)
    ELSE getServiceLocated(locateUserService(ins, user, idService),
                           ins, c, user, idService, idTransport, validate, env, calls)

getService(ins, c, user, idService, idTransport, validate, env) ==
    getServiceCalled(ins, c, user, idService, idTransport, validate, env,
                     <<IF validate THEN "getService:validate"
                       ELSE "getService:novalidate">>)

\* the access validation getService applies when the caller passes no flag
getServiceDefault == TRUE

-----------------------------------------------------------------------------
(* CredentialCipher: cryptoManager().symDecrpyt *)

Malformed == [plain |-> <<>>, key |-> "", ok |-> FALSE]
Enc(plain, key) == [plain |-> plain, key |-> key, ok |-> TRUE]

\* symDecrpyt(cipherText, scrambler): the plaintext, garbage under another
\* scrambler; an exception on malformed input
symDecrpyt(cipherText, scrambler) ==
    IF ~cipherText.ok
    THEN [exc |-> Exc("DecryptionError", 0, <<"Malformed credential">>), plain |-> <<>>]
    ELSE [exc |-> NoExc,
          plain |-> IF cipherText.key = scrambler THEN cipherText.plain
                    ELSE <<"garbage">>]

-----------------------------------------------------------------------------
(* The transport instance: connection info and script *)

\* itrans.getConnectionInfo(userService, user, password)
getConnectionInfo(userService, user, password, env) ==
    IF env.fault = "transport"
    THEN [exc |-> Exc("Exception", 0, <<"transport failure">>), ci |-> << >>]
    ELSE [exc |-> NoExc,
          ci |-> [protocol |-> "nx", username |-> <<user>>,
                  password |-> password, domain |-> <<>>]]

SupportedOS == {"Windows", "Linux"}

\* a script builder that tells the password in its failure
getEncodedTransportScriptLeaky(userService, transport, ip, os, user, password, env) ==
    IF env.fault = "transport" \/ os \notin SupportedOS
    THEN [exc |-> Exc("Exception", 0, <<"cannot build script for ">> \o password),
          script |-> PyNone]
    ELSE [exc |-> NoExc,
          script |-> [t |-> "script", os |-> os, ip |-> ip, transport |-> transport,
                      user |-> user, encrypted |-> password]]

\* transportInstance.getEncodedTransportScript(userService, transport, ip, os,
\* user, password, request)
getEncodedTransportScript(userService, transport, ip, os, user, password, env) ==
    IF env.fault = "transport"
    THEN [exc |-> Exc("Exception", 0, <<"transport failure">>), script |-> PyNone]
    ELSE IF os \notin SupportedOS
    THEN [exc |-> Exc("UnsupportedOS", 0, <<"Unsupported OS">>), script |-> PyNone]
    ELSE [exc |-> NoExc,
          script |-> [t |-> "script", os |-> os, ip |-> ip, transport |-> transport,
                      user |-> user, encrypted |-> password]]

-----------------------------------------------------------------------------
(* TicketBroker and link issuance: services.enableService *)

TicketTTL == 60

\* issue(instance, transport, payload, ttl): the ticket's id is its position
issue(tk, payload, ttl) ==
    Append(tk, [payload |-> payload, ttl |-> ttl, live |-> TRUE, wins |-> 0])

NoPayload == [inst |-> 0, transport |-> "", password |-> Malformed]

\* a redemption that leaves the ticket in the store
redeemKeep(tk, id) ==
    IF id \in 1..Len(tk) /\ tk[id].live
    THEN [got |-> "payload", payload |-> tk[id].payload,
          tickets |-> [tk EXCEPT ![id].wins = @ + 1]]
    ELSE [got |-> "NotFound", payload |-> NoPayload, tickets |-> tk]

\* redeem(ticketId): the payload of a live ticket, which is thereby deleted,
\* in one atomic step; NotFound for any other id (wins counts the
\* redemptions that returned the payload)
redeem(tk, id) ==
    IF id \in 1..Len(tk) /\ tk[id].live
    THEN [got |-> "payload", payload |-> tk[id].payload,
          tickets |-> [tk EXCEPT ![id].live = FALSE, ![id].wins = @ + 1]]
    ELSE [got |-> "NotFound", payload |-> NoPayload, tickets |-> tk]

\* what a ticket id stands for: "live", "used", "expired" or "unknown"
TicketState(tk, id) ==
    IF id \notin 1..Len(tk) THEN "unknown"
    ELSE IF tk[id].live THEN "live"
    ELSE IF tk[id].wins > 0 THEN "used" ELSE "expired"

\* d time units pass: a ticket whose time is over is gone
ticketsAge(tk, d) ==
    [i \in DOMAIN tk |->
        IF tk[i].ttl > d THEN [tk[i] EXCEPT !.ttl = @ - d]
        ELSE [tk[i] EXCEPT !.ttl = 0, !.live = FALSE]]

\* enableService once the service is resolved (r): the link of a new ticket,
\* or the failure of the resolution reported in 'error' (failure keeps the
\* exception the resolution met)
enableServiceResolved(r, tk, env) ==
    IF r.exc.cls # "none"
    THEN [exc |-> NoExc, failure |-> r.exc,
          error |-> PyStr(r.exc.msg), url |-> PyNone,
          inst |-> r.inst, cache |-> r.cache, tickets |-> tk,
          calls |-> <<"enableService">> \o r.calls]
    ELSE [exc |-> NoExc, failure |-> NoExc, error |-> PyStr(<<>>),
          url |-> [t |-> "url", ticket |-> Len(tk) + 1],
          inst |-> r.inst, cache |-> r.cache,
          tickets |-> issue(tk, [inst |-> r.userService, transport |-> r.trans,
                                 password |-> env.password], TicketTTL),
          calls |-> <<"enableService">> \o r.calls \o <<"ticket.issue">>]

\* enableService(request, idService, idTransport): resolves the service and
\* issues a ticket for it
enableService(ins, c, tk, user, idService, idTransport, env) ==
    IF env.fault = "link"
    THEN [exc |-> Exc("Exception", 0, <<"link failure">>), failure |-> NoExc,
          error |-> PyNone, url |-> PyNone,
          inst |-> ins, cache |-> c, tickets |-> tk, calls |-> <<"enableService">>]
    ELSE enableServiceResolved(getService(ins, c, user, idService, idTransport, TRUE, env),
                               tk, env)

\* services.getServicesData(request): the services offered to the user
getServicesData(user, env) ==
    IF env.fault = "enum"
    THEN [exc |-> Exc("Exception", 0, <<"enumeration failure">>), data |-> PyNone]
    ELSE [exc |-> NoExc,
          data |-> [t |-> "services", v |-> {s \in Services : HasAccess(user, s)}]]

-----------------------------------------------------------------------------
(* Connection: the handlers of the router *)

\* what a handler did: op names it, out is "return" or "raise", value the
\* returned value or the raised exception, exc the failure it met (caught
\* or not), calls the collaborators it invoked, in order
Done(op, out, value, exc, calls, ins, c, tk) ==
    [op |-> op, out |-> out, value |-> value, exc |-> exc, calls |-> calls,
     inst |-> ins, cache |-> c, tickets |-> tk]

\* every failure recovered as a final one
RecoverFinal(e, now) == result(PyNone, PyStr(e.msg), 0, FALSE, now)

\* except ServiceNotReadyError as e / except Exception as e
Recover(e, now) ==
    IF e.cls = "ServiceNotReadyError"
    THEN result(PyNone, PyInt(SERVICE_IN_PREPARATION), e.code, TRUE, now)
    ELSE result(PyNone, PyStr(e.msg), 0, FALSE, now)

\* Connection.serviceList once getServicesData answered (d)
serviceListWith(d, ins, c, tk, now) ==
    IF d.exc.cls # "none"
    THEN Done("serviceList", "raise", d.exc, d.exc, <<"getServicesData">>, ins, c, tk)
    ELSE Done("serviceList", "return", result(d.data, PyNone, 0, FALSE, now),
              NoExc, <<"getServicesData">>, ins, c, tk)

\* Connection.serviceList
serviceList(ins, c, tk, user, env, now) ==
    serviceListWith(getServicesData(user, env), ins, c, tk, now)

\* the flag handed on as it came
ConnectionValidateSame(doNotCheck) == doNotCheck

\* the access validation connection(doNotCheck) asks of getService
ConnectionValidate(doNotCheck) == ~doNotCheck

\* the descriptor before the transport fills it in
BaseInfo(ip) ==
    [username |-> <<>>, password |-> <<>>, domain |-> <<>>, protocol |-> "unknown",
     ip |-> ip]

\* Connection.connection once itrans.getConnectionInfo answered (g):
\* ci.update(...) and the result
connectionInfoWith(g, r, op, tk, now) ==
    IF g.exc.cls # "none"
    THEN Done(op, "return", Recover(g.exc, now), g.exc,
              r.calls \o <<"getConnectionInfo">>, r.inst, r.cache, tk)
    ELSE Done(op, "return", result(PyDict(g.ci @@ BaseInfo(r.ip)), PyNone, 0, FALSE, now),
              NoExc, r.calls \o <<"getConnectionInfo">>, r.inst, r.cache, tk)

\* a connect that asks the transport whether or not it has a handle
connectionResolvedAlways(r, op, tk, user, env, now) ==
    IF r.exc.cls # "none"
    THEN Done(op, "return", Recover(r.exc, now), r.exc, r.calls, r.inst, r.cache, tk)
    ELSE connectionInfoWith(getConnectionInfo(r.userService, user, <<"UNKNOWN">>, env),
                            r, op, tk, now)

\* Connection.connection once getService answered (r)
connectionResolved(r, op, tk, user, env, now) ==
    IF r.exc.cls # "none"
    THEN Done(op, "return", Recover(r.exc, now), r.exc, r.calls, r.inst, r.cache, tk)
    ELSE IF r.itrans
    THEN connectionInfoWith(getConnectionInfo(r.userService, user, <<"UNKNOWN">>, env),
                            r, op, tk, now)
    ELSE Done(op, "return", result(PyDict(BaseInfo(r.ip)), PyNone, 0, FALSE, now),
              NoExc, r.calls, r.inst, r.cache, tk)

\* Connection.connection
connection(ins, c, tk, user, args, doNotCheck, env, now) ==
    connectionResolved(
        getService(ins, c, user, args[1], args[2], ConnectionValidate(doNotCheck), env),
        IF doNotCheck THEN "connection:skip" ELSE "connection", tk, user, env, now)

\* userService.setConnectionSource(ip, hostname)
setConnectionSource(ins, us, ip, hostname) ==
    [ins EXCEPT ![us].src = [ip |-> ip, hostname |-> hostname]]

\* Connection.script once getEncodedTransportScript answered (t)
scriptBuilt(t, calls, ins, c, tk, now) ==
    IF t.exc.cls # "none"
    THEN Done("script", "return", Recover(t.exc, now), t.exc, calls, ins, c, tk)
    ELSE Done("script", "return", result(t.script, PyNone, 0, FALSE, now),
              NoExc, calls, ins, c, tk)

\* a script built without looking at the address and the handle
scriptDecryptedUnchecked(p, r, ins2, tk, user, args, env, now) ==
    IF p.exc.cls # "none"
    THEN Done("script", "return", Recover(p.exc, now), p.exc,
              r.calls \o <<"symDecrpyt">>, r.inst, r.cache, tk)
    ELSE scriptBuilt(getEncodedTransportScript(r.userService, r.trans, r.ip, env.os,
                                               user, p.plain, env),
                     r.calls \o <<"symDecrpyt", "setConnectionSource",
                                  "getEncodedTransportScript">>,
                     ins2, r.cache, tk, now)

\* a script request that records the source before it looks at the password
scriptDecryptedEager(p, r, ins2, tk, user, args, env, now) ==
    IF p.exc.cls # "none"
    THEN Done("script", "return", Recover(p.exc, now), p.exc,
              r.calls \o <<"symDecrpyt">>, ins2, r.cache, tk)
    ELSE IF r.ip = 0 \/ ~r.itrans
    THEN Done("script", "return", Recover(ServiceNotReadyError(CodeDefault), now),
              ServiceNotReadyError(CodeDefault),
              r.calls \o <<"symDecrpyt", "setConnectionSource">>, ins2, r.cache, tk)
    ELSE scriptBuilt(getEncodedTransportScript(r.userService, r.trans, r.ip, env.os,
                                               user, p.plain, env),
                     r.calls \o <<"symDecrpyt", "setConnectionSource",
                                  "getEncodedTransportScript">>,
                     ins2, r.cache, tk, now)

\* a script request that records the source only once it can connect
scriptDecryptedLate(p, r, ins2, tk, user, args, env, now) ==
    IF p.exc.cls # "none"
    THEN Done("script", "return", Recover(p.exc, now), p.exc,
              r.calls \o <<"symDecrpyt">>, r.inst, r.cache, tk)
    ELSE IF r.ip = 0 \/ ~r.itrans
    THEN Done("script", "return", Recover(ServiceNotReadyError(CodeDefault), now),
              ServiceNotReadyError(CodeDefault),
              r.calls \o <<"symDecrpyt">>, r.inst, r.cache, tk)
    ELSE scriptBuilt(getEncodedTransportScript(r.userService, r.trans, r.ip, env.os,
                                               user, p.plain, env),
                     r.calls \o <<"symDecrpyt", "setConnectionSource",
                                  "getEncodedTransportScript">>,
                     ins2, r.cache, tk, now)

\* Connection.script once the password is decrypted (p): the connection
\* source is recorded (ins2), then the address and the handle are checked
scriptDecrypted(p, r, ins2, tk, user, args, env, now) ==
    IF p.exc.cls # "none"
    THEN Done("script", "return", Recover(p.exc, now), p.exc,
              r.calls \o <<"symDecrpyt">>, r.inst, r.cache, tk)
    ELSE IF r.ip = 0 \/ ~r.itrans
    THEN Done("script", "return", Recover(ServiceNotReadyError(CodeDefault), now),
              ServiceNotReadyError(CodeDefault),
              r.calls \o <<"symDecrpyt", "setConnectionSource">>, ins2, r.cache, tk)
    ELSE scriptBuilt(getEncodedTransportScript(r.userService, r.trans, r.ip, env.os,
                                               user, p.plain, env),
                     r.calls \o <<"symDecrpyt", "setConnectionSource",
                                  "getEncodedTransportScript">>,
                     ins2, r.cache, tk, now)

\* Connection.script once getService answered (r): args[3] is the
\* scrambler, args[4] the hostname
scriptResolved(r, tk, user, args, env, now) ==
    IF r.exc.cls # "none"
    THEN Done("script", "return", Recover(r.exc, now), r.exc, r.calls, r.inst, r.cache, tk)
    ELSE scriptDecrypted(symDecrpyt(env.password, args[3]), r,
                         setConnectionSource(r.inst, r.userService, ClientIp, args[4]),
                         tk, user, args, env, now)

\* Connection.script
script(ins, c, tk, user, args, env, now) ==
    scriptResolved(getService(ins, c, user, args[1], args[2], getServiceDefault, env),
                   tk, user, args, env, now)

\* a ticket fetch that redeems the first ticket of the store
getTicketContentRedeems(ins, c, tk) ==
    Done("getTicketContent", "return", [k \in {} |-> PyNone], NoExc,
         <<"ticket.redeem">>, ins, c, redeem(tk, 1).tickets)

\* Connection.getTicketContent: the empty dict
getTicketContent(ins, c, tk) ==
    Done("getTicketContent", "return", [k \in {} |-> PyNone], NoExc, <<>>, ins, c, tk)

\* Connection.getUdsLink once enableService answered (linkInfo)
getUdsLinkWith(linkInfo, now) ==
    IF linkInfo.exc.cls # "none"
    THEN Done("getUdsLink", "raise", linkInfo.exc, linkInfo.exc, linkInfo.calls,
              linkInfo.inst, linkInfo.cache, linkInfo.tickets)
    ELSE IF PyTruthy(linkInfo.error)
    THEN Done("getUdsLink", "return", result(PyNone, linkInfo.error, 0, FALSE, now),
              linkInfo.failure, linkInfo.calls, linkInfo.inst, linkInfo.cache,
              linkInfo.tickets)
    ELSE Done("getUdsLink", "return", result(linkInfo.url, PyNone, 0, FALSE, now),
              linkInfo.failure, linkInfo.calls, linkInfo.inst, linkInfo.cache,
              linkInfo.tickets)

\* Connection.getUdsLink: the session's password and the scrambler header
\* are read first
getUdsLink(ins, c, tk, user, args, env, now) ==
    IF env.fault = "session"
    THEN Done("getUdsLink", "raise", Exc("KeyError", 0, <<"REST">>),
              Exc("KeyError", 0, <<"REST">>), <<>>, ins, c, tk)
    ELSE IF env.fault = "header"
    THEN Done("getUdsLink", "raise", Exc("KeyError", 0, <<"HTTP_SCRAMBLER">>),
              Exc("KeyError", 0, <<"HTTP_SCRAMBLER">>), <<>>, ins, c, tk)
    ELSE getUdsLinkWith(enableService(ins, c, tk, user, args[1], args[2], env), now)

\* raise RequestError('Invalid Request')
InvalidRequest(ins, c, tk) ==
    Done("invalid", "raise", Exc("RequestError", 0, <<"Invalid Request">>),
         Exc("RequestError", 0, <<"Invalid Request">>), <<>>, ins, c, tk)

\* a dispatch that takes every longer request for a script request
getAtLeastFour(ins, c, tk, user, args, env, now) ==
    IF Len(args) = 0 THEN serviceList(ins, c, tk, user, env, now)
    ELSE IF Len(args) = 1 THEN getTicketContent(ins, c, tk)
    ELSE IF Len(args) = 2 THEN connection(ins, c, tk, user, args, FALSE, env, now)
    ELSE IF Len(args) = 3 /\ args[3] = "skipChecking"
    THEN connection(ins, c, tk, user, args, TRUE, env, now)
    ELSE IF Len(args) = 3 /\ args[3] = "udslink"
    THEN getUdsLink(ins, c, tk, user, args, env, now)
    ELSE IF Len(args) >= 4 THEN script(ins, c, tk, user, args, env, now)
    ELSE InvalidRequest(ins, c, tk)

\* Connection.get: the dispatch on the shape of the arguments
get(ins, c, tk, user, args, env, now) ==
    IF Len(args) = 0 THEN serviceList(ins, c, tk, user, env, now)
    ELSE IF Len(args) = 1 THEN getTicketContent(ins, c, tk)
    ELSE IF Len(args) = 2 THEN connection(ins, c, tk, user, args, FALSE, env, now)
    ELSE IF Len(args) = 3 /\ args[3] = "skipChecking"
    THEN connection(ins, c, tk, user, args, TRUE, env, now)
    ELSE IF Len(args) = 3 /\ args[3] = "udslink"
    THEN getUdsLink(ins, c, tk, user, args, env, now)
    ELSE IF Len(args) = 4 THEN script(ins, c, tk, user, args, env, now)
    ELSE InvalidRequest(ins, c, tk)

-----------------------------------------------------------------------------
(* The requests the model serves *)

\* the positional arguments of the requests: every shape the router
\* tells apart, with known ids (s1, t1) and unknown ones (sX, tX)
ArgLists ==
    {<<>>, <<"tk1">>, <<"tk2">>}
    \cup {<<"s1", "t1">>, <<"sX", "t1">>, <<"s1", "tX">>}
    \cup {<<"s1", "t1", l>> : l \in {"skipChecking", "udslink", "k1"}}
    \cup {<<"sX", "t1", l>> : l \in {"skipChecking", "udslink"}}
    \cup {<<"s1", "t1", "k1", h>> : h \in {"h1", "h2"}}
    \cup {<<"sX", "t1", "k1", "h1">>, <<"s1", "t1", "k2", "h1">>}
    \cup {<<"s1", "t1", "k1", "h1", "x">>, <<"s1", "t1", "k1", "h1", "x", "y">>}

Secret == Enc(<<"secret123">>, "k1")

\* what the surroundings of a request do: the client's OS, the session's
\* encrypted password, the answer of the reachability probe, and the
\* collaborator that fails (at most one)
DefaultEnv == [os |-> "Windows", password |-> Secret, probe |-> TRUE, fault |-> "none"]

NoProbe == [DefaultEnv EXCEPT !.probe = FALSE]
Failing(faults) == {[DefaultEnv EXCEPT !.fault = f] : f \in faults}

\* the surroundings that matter to a request of this shape: all goes well,
\* or one thing goes wrong
EnvFor(args) ==
    IF Len(args) = 0 THEN {DefaultEnv} \cup Failing({"enum"})
    ELSE IF Len(args) = 2 \/ (Len(args) = 3 /\ args[3] = "skipChecking")
    THEN {DefaultEnv, NoProbe}
         \cup Failing({"resolver", "resolverEmpty", "transport", "noHandle"})
    ELSE IF Len(args) = 3 /\ args[3] = "udslink"
    THEN {DefaultEnv, NoProbe} \cup Failing({"resolver", "session", "header", "link"})
    ELSE IF Len(args) = 4
    THEN {DefaultEnv, NoProbe, [DefaultEnv EXCEPT !.os = "Amiga"],
          [DefaultEnv EXCEPT !.password = Malformed]}
         \cup Failing({"resolver", "resolverEmpty", "transport", "noAddress",
                       "noHandle"})
    ELSE {DefaultEnv}

Keys == Users \X Services \X Transports

\* the state of the user's instance (us, 0 when none) before a request, and
\* whether the transport would report it available
PreOfInstance(us, ins, c, env) ==
    IF us = 0 THEN [state |-> "absent", available |-> FALSE]
    ELSE [state |-> ins[us].state,
          available |-> ins[us].state = "ready"
                        /\ isAvailableFor(c, ins[us].ip, env.probe).ret]

PreOf(ins, c, user, args, env) ==
    PreOfInstance(IF Len(args) >= 2 THEN locateUserService(ins, user, args[1]) ELSE 0,
                  ins, c, env)

NoRequest ==
    [user |-> "", args |-> <<>>, env |-> DefaultEnv, op |-> "none", out |-> "none",
     value |-> [k \in {} |-> PyNone], exc |-> NoExc, calls |-> <<>>,
     pre |-> [state |-> "absent", available |-> FALSE]]

\* the threads that may be inside isAvailableFor at the same time
Callers == {"c1", "c2"}

\* a caller before any isAvailableFor call: pc is where the caller is in
\* the method ("idle" outside it), ip the address it asks about, ready what
\* cache.get answered, probed whether it called testServer and probe what
\* that answered, ret what the call returned
NoAvail == [pc |-> "idle", ip |-> 0, ready |-> "None", probe |-> FALSE,
            probed |-> FALSE, ret |-> FALSE]

\* an address before any probe; outcome is what its most recent probe
\* answered
NeverProbed == [probed |-> FALSE, outcome |-> FALSE]

\* the addresses the transport is asked about
ProbeAddrs == {1, 2}

\* what a handler holds of getService's answer; the instances and the
\* cache are the shared ones
Held(r) ==
    [exc |-> r.exc, ip |-> r.ip, userService |-> r.userService, trans |-> r.trans,
     itrans |-> r.itrans, calls |-> r.calls]

Procs == {"p1", "p2"}

\* a handler outside any request: pc is where it is in the request, ready
\* what cache.get answered it, probe what testServer answered it, res what
\* getService gave it
IdleProc == [pc |-> "idle", user |-> "", service |-> "", args |-> <<>>, found |-> 0,
             ticket |-> 0, got |-> "none", seen |-> "none", ready |-> "None",
             probe |-> FALSE, res |-> Held(Raised(NoExc, <<>>, <<>>, <<>>))]

\* the connect and script requests that reach the resolver concurrently
ResolveArgs == {<<"s1", "t1">>} \cup {<<"s1", "t1", "k1", h>> : h \in {"h1", "h2"}}

\* an answer to the repeating client: the envelope without its date, the
\* instances the request left, and the state and availability of the
\* user's instance right after it
NoAnswer == [value |-> [k \in {} |-> PyNone], out |-> "none", exc |-> NoExc,
             inst |-> <<>>, post |-> [state |-> "absent", available |-> FALSE]]

\* before the repeating client made its request
NoPoll == [phase |-> "new", user |-> "", args |-> <<>>, env |-> DefaultEnv,
           prev |-> NoAnswer, cur |-> NoAnswer, stable |-> FALSE]

\* what an observer of the server sees of a request: the log records, the
\* connection sources recorded on the instances, and the 'error' entry
NoSeen == [logs |-> <<>>, sources |-> <<>>, error |-> PyNone]

\* before any pair of script requests was compared
NoTwin == [on |-> FALSE, a |-> DefaultEnv.password, b |-> DefaultEnv.password,
           seenA |-> NoSeen, seenB |-> NoSeen]

-----------------------------------------------------------------------------
(* The client of the provisioning backend: its state *)

\* the module's FAKE flag, as the source sets it
FAKE == TRUE

\* before any call of the client: no method, no step, nothing sent
\* ('connected' is how the connect step of the call ended, 'again' whether
\* the call finished before it ended in a failed connect, 'overlap' whether
\* another call was under way on the client during the call, 'authAtLogin'
\* and 'authAtBody' the session key held when the login request and the
\* request of the body were sent)
NoCall == [method |-> "none", steps |-> <<>>, out |-> "none", exc |-> NoExc,
           value |-> PyNone, authBefore |-> "None", authAtLogin |-> "None",
           authAtBody |-> "None", connected |-> "none", again |-> FALSE,
           overlap |-> FALSE, net |-> <<>>, canned |-> <<>>, checked |-> 0]

\* the threads that may call the client at the same time
OgThreads == {"A", "B"}

\* a thread outside any call of the client: pc is where it is in the call
\* ("login" between the test of connect and the login request, "posted"
\* while the login request waits for its answer, "inner" once connect
\* ended, "body" while the request of the method's body waits for its
\* answer, "raw" while the request of an operation used directly does),
\* method what it called, path the path an operation was given, cn how its
\* connect went
OgIdle == [pc |-> "idle", method |-> "none", path |-> <<>>, authBefore |-> "None",
           authAtLogin |-> "None", authAtBody |-> "None",
           again |-> FALSE, overlap |-> FALSE,
           cn |-> [res |-> [out |-> "none", value |-> PyNone, exc |-> NoExc],
                   login |-> FALSE, net |-> <<>>, canned |-> <<>>, checked |-> 0]]

\* OpenGnsysClient.__init__: no session key (auth is None); fake is the
\* FAKE flag of the module the client runs in, logins and ncalls count the
\* successful logins and the calls made, last is the call that ended last
OpenGnsysClient(fake) ==
    [fake |-> fake, auth |-> "None", logins |-> 0, ncalls |-> 0, last |-> NoCall,
     thr |-> [t \in OgThreads |-> OgIdle]]

-----------------------------------------------------------------------------
(* An authenticator behind the REST handler: its state *)

\* the instances (UserService rows) the deletion of an authenticator may
\* meet, in the order the queries return them, and the owners they may
\* have: the users of the authenticator, in the order of item.users.all(),
\* a user of another authenticator ("uz"), nobody ("None")
Machines == <<"m1", "m2", "m3">>
AuthUsers == <<"ua", "ub">>

\* the networks that exist (Network.objects)
Networks == {"n1", "n2"}

\* before any operation on the authenticator
NoAuthOp == [op |-> "none", input |-> <<>>, out |-> "none", exc |-> NoExc,
             value |-> <<>>, caught |-> NoExc, calls |-> <<>>, before |-> {}]

\* the type of an authenticator: a subclass of auths.Authenticator and the
\* base methods it overrides
AuthType(overrides) == [cls |-> "Sub", overrides |-> overrides, authenticator |-> TRUE]

\* an authenticator of a type, with its networks and the owners of the
\* instances
Authenticator(type_, owners, nets) ==
    [exists |-> TRUE, type |-> type_, networks |-> nets,
     svc |-> [i \in DOMAIN Machines |-> [user |-> owners[i], released |-> FALSE]],
     nops |-> 0, last |-> NoAuthOp]

-----------------------------------------------------------------------------
(* The redirect middleware: its state *)

\* a str is the sequence of its characters
Slash == <<"/">>

\* RedirectMiddleware.NO_REDIRECT as the class is loaded
NO_REDIRECT ==
    <<<<"r", "e", "s", "t">>,
      <<"p", "a", "m">>,
      <<"g", "u", "a", "c", "a", "m", "o", "l", "e">>,
      <<"u", "d", "s", "/", "p", "a", "m">>,
      <<"u", "d", "s", "/", "g", "u", "a", "c", "a", "m", "o", "l", "e">>,
      <<"u", "d", "s", "/", "r", "e", "s", "t", "/", "c", "l", "i", "e", "n", "t", "/", "t", "e", "s", "t">>,
      <<"u", "d", "s", "/", "r", "e", "s", "t", "/", "t", "u", "n", "n", "e", "l">>>>

\* before any request through a middleware instance
NoPass == [instance |-> 0, path |-> <<>>, secure |-> FALSE, method |-> "none",
           setting |-> FALSE, list |-> <<>>, out |-> "none", url |-> <<>>,
           passed |-> 0, response |-> <<>>]

\* the class RedirectMiddleware: the list its instances share, the paths
\* registered so far, the last request through an instance
RedirectMiddleware(noRedirect) ==
    [NO_REDIRECT |-> noRedirect, registered |-> {}, last |-> NoPass]

-----------------------------------------------------------------------------
(* The router serving requests one at a time *)

\* the broker before any request
InitBroker ==
    /\ inst = <<>>
    /\ cache = [a \in Addrs |-> NoEntry]
    /\ tickets = <<>>
    /\ nreq = 0
    /\ last = NoRequest
    /\ pending = [k \in Keys |-> -1]
    /\ avail = [t \in Callers |-> NoAvail]
    /\ hist = [a \in Addrs |-> NeverProbed]
    /\ proc = [p \in Procs |-> IdleProc]
    /\ poll = NoPoll
    /\ twin = NoTwin

Init ==
    /\ InitBroker
    /\ og = OpenGnsysClient(FAKE)
    /\ au = Authenticator(AuthType({}), <<"ua", "ua", "ub">>, {})
    /\ mw = RedirectMiddleware(NO_REDIRECT)

\* the first "in preparation" answer to a connect request is remembered
\* with the number of instances the user then owns
PendingAfter(h, pre, key, user, args) ==
    IF /\ h.op = "connection"
       /\ key \in Keys
       /\ pre.state # "ready"
       /\ h.out = "return" /\ h.value.retryable = "1"
       /\ pending[key] = -1
    THEN [pending EXCEPT ![key] = CountOf(h.inst, user, args[1])]
    ELSE pending

\* the router has served the request with outcome h
Served(h, pre, user, args, env) ==
    /\ inst' = h.inst
    /\ cache' = h.cache
    /\ tickets' = h.tickets
    /\ nreq' = nreq + 1
    /\ last' = [user |-> user, args |-> args, env |-> env, op |-> h.op,
                out |-> h.out, value |-> h.value, exc |-> h.exc,
                calls |-> h.calls, pre |-> pre]
    /\ pending' = PendingAfter(h, pre,
                               IF Len(args) >= 2 THEN <<user, args[1], args[2]>>
                               ELSE <<user, "", "">>,
                               user, args)

\* one GET request of the user with these positional arguments
Request(user, args, env) ==
    /\ nreq < MaxReq
    /\ Served(get(inst, cache, tickets, user, args, env, nreq + 1),
              PreOf(inst, cache, user, args, env), user, args, env)
    /\ UNCHANGED <<avail, hist, proc, poll, twin, og, au, mw>>

\* the provisioning backend finishes the deployment of an instance
ProvisioningDone(i) ==
    /\ i \in 1..Len(inst)
    /\ inst[i].state = "provisioning"
    /\ inst' = [inst EXCEPT ![i].state = "ready"]
    /\ UNCHANGED <<cache, tickets, nreq, last, pending, avail, hist, proc, poll, twin, og, au, mw>>

\* time passes, as long as the readiness cache keeps an entry
Tick ==
    /\ \/ \E a \in Addrs : cache[a].ttl > 0
       \/ \E i \in 1..Len(tickets) : tickets[i].live
    /\ cache' = cacheAge(cache, READY_CACHE_TIMEOUT)
    /\ tickets' = ticketsAge(tickets, READY_CACHE_TIMEOUT)
    /\ UNCHANGED <<inst, nreq, last, pending, avail, hist, proc, poll, twin, og, au, mw>>

Next ==
    \/ \E user \in Users, args \in ArgLists : \E env \in EnvFor(args) :
          Request(user, args, env)
    \/ \E i \in 1..MaxInst : ProvisioningDone(i)
    \/ Tick

Spec == Init /\ [][Next]_vars

-----------------------------------------------------------------------------
(* The transport asked for availability by concurrent callers while time passes *)

\* caller t calls isAvailableFor for the address: ready = self.cache.get(ip)
\* is read; a value that is not falsy is answered at once, otherwise the
\* caller goes on to testServer
Available(t, ip) ==
    /\ avail[t].pc = "idle"
    /\ LET ready == cacheGet(cache, ip)
           asked == [NoAvail EXCEPT !.ip = ip, !.ready = ready]
       IN  avail' = [avail EXCEPT ![t] =
                        IF MustProbe(ready) THEN [asked EXCEPT !.pc = "testServer"]
                        ELSE [asked EXCEPT
                                !.ret = isAvailableForWith(ready, cache, ip, FALSE).ret]]
    /\ UNCHANGED <<inst, cache, tickets, nreq, last, pending, hist, proc, poll, twin, og, au, mw>>

\* the probe of caller t: testServer(userService, ip, port) is called and
\* answers probe
TestServer(t, probe) ==
    /\ avail[t].pc = "testServer"
    /\ avail' = [avail EXCEPT ![t].pc = "put", ![t].probe = probe, ![t].probed = TRUE]
    /\ hist' = [hist EXCEPT ![avail[t].ip] = [probed |-> TRUE, outcome |-> probe]]
    /\ UNCHANGED <<inst, cache, tickets, nreq, last, pending, proc, poll, twin, og, au, mw>>

\* caller t stores the outcome of its probe, self.cache.put(ip, 'Y' or 'N',
\* READY_CACHE_TIMEOUT), and returns
CachePut(t) ==
    /\ avail[t].pc = "put"
    /\ LET r == isAvailableForWith(avail[t].ready, cache, avail[t].ip, avail[t].probe)
       IN  /\ cache' = r.cache
           /\ avail' = [avail EXCEPT ![t].pc = "idle", ![t].ret = r.ret]
    /\ UNCHANGED <<inst, tickets, nreq, last, pending, hist, proc, poll, twin, og, au, mw>>

\* one time unit passes
TickOne ==
    /\ \E a \in Addrs : cache[a].ttl > 0
    /\ cache' = cacheAge(cache, 1)
    /\ UNCHANGED <<inst, tickets, nreq, last, pending, avail, hist, proc, poll, twin, og, au, mw>>

NextCache ==
    \/ \E t \in Callers, ip \in ProbeAddrs : Available(t, ip)
    \/ \E t \in Callers, probe \in BOOLEAN : TestServer(t, probe)
    \/ \E t \in Callers : CachePut(t)
    \/ TickOne

SpecCache == Init /\ [][NextCache]_vars

-----------------------------------------------------------------------------
(* Concurrent resolutions: the section that guards an assignment *)

Others(p) == Procs \ {p}

\* every resolution enters at once
SectionOpen(p, user, service) == TRUE

\* the section of (user, service) is free for p: no other handler is
\* between the lookup and the assignment of that user and service
SectionFree(p, user, service) ==
    \A q \in Others(p) :
        ~(proc[q].pc = "located" /\ proc[q].user = user /\ proc[q].service = service)

\* a connect or script request of the user, with these positional
\* arguments, arrives at handler p, which calls the resolver
Resolve(p, user, args) ==
    /\ proc[p].pc = "idle"
    /\ proc' = [proc EXCEPT ![p] = [IdleProc EXCEPT !.pc = "enter", !.user = user,
                                                    !.service = args[1],
                                                    !.args = args]]
    /\ UNCHANGED <<inst, cache, tickets, nreq, last, pending, avail, hist, poll, twin, og, au, mw>>

\* p enters the guarded section and looks the user's instance up
Locate(p) ==
    /\ proc[p].pc = "enter"
    /\ SectionFree(p, proc[p].user, proc[p].service)
    /\ proc' = [proc EXCEPT ![p].pc = "located",
                            ![p].found = locateUserService(inst, proc[p].user,
                                                           proc[p].service)]
    /\ UNCHANGED <<inst, cache, tickets, nreq, last, pending, avail, hist, poll, twin, og, au, mw>>

\* p assigns: the instance found, or a new one when none was found and the
\* pool has capacity; the section is left
Assign(p) ==
    /\ proc[p].pc = "located"
    /\ IF proc[p].found = 0 /\ Len(inst) < MaxInst
       THEN /\ inst' = createUserService(inst, proc[p].user, proc[p].service)
            /\ proc' = [proc EXCEPT ![p].pc = "resolved", ![p].found = Len(inst) + 1,
                                    ![p].got = "created"]
       ELSE /\ inst' = inst
            /\ proc' = [proc EXCEPT ![p].pc = "resolved",
                                    ![p].got = IF proc[p].found = 0 THEN "refused"
                                               ELSE "reused"]
    /\ UNCHANGED <<cache, tickets, nreq, last, pending, avail, hist, poll, twin, og, au, mw>>

\* what is left of getService once the assignment is made and the cache
\* has answered (ready): no instance could be given, the one just created
\* is in preparation, the one found is checked for readiness and
\* availability, env.probe being what testServer answered
getServiceAssigned(q, ins, c, ready, env) ==
    IF q.found = 0
    THEN Raised(Exc("MaxServicesReached", 0, <<"No capacity">>), ins, c,
                <<"getService:validate">>)
    ELSE IF q.got = "created" \/ ins[q.found].state # "ready"
    THEN Raised(ServiceNotReadyError(CodeProvisioning), ins, c, <<"getService:validate">>)
    ELSE getServiceTested(isAvailableForWith(ready, c, ins[q.found].ip, env.probe),
                          ins, q.found, q.args[2], TRUE, env, <<"getService:validate">>)

\* whether getService asks the transport about the instance of q
Tests(q, ins) == q.found # 0 /\ q.got # "created" /\ ins[q.found].state = "ready"

\* what the surroundings do while getService returns: the machine may
\* report no address yet, the transport may give no handle
Returning(args) ==
    {e \in EnvFor(args) : e.fault \in {"noAddress", "noHandle"}} \cup {DefaultEnv}

\* what the surroundings do while the handler goes on after getService
Answering(args) ==
    {e \in EnvFor(args) : e.probe /\ e.fault \in {"none", "transport"}}

\* getService of p goes on after the assignment: an instance that is ready
\* is asked about at the transport, which reads the cache (cache.get); on
\* a miss the probe is sent and p waits for it, otherwise getService
\* returns or raises
Test(p) ==
    /\ proc[p].pc = "resolved"
    /\ LET q == proc[p]
           ready == IF Tests(q, inst) THEN cacheGet(cache, inst[q.found].ip) ELSE "None"
       IN  IF Tests(q, inst) /\ MustProbe(ready)
           THEN proc' = [proc EXCEPT ![p].pc = "testServer", ![p].ready = ready]
           ELSE \E env \in Returning(q.args) :
                    proc' = [proc EXCEPT ![p].pc = "got", ![p].ready = ready,
                                ![p].res = Held(getServiceAssigned(q, inst, cache, ready, env))]
    /\ UNCHANGED <<inst, cache, tickets, nreq, last, pending, avail, hist, poll, twin, og, au, mw>>

\* testServer answers p
Probe(p, probe) ==
    /\ proc[p].pc = "testServer"
    /\ proc' = [proc EXCEPT ![p].pc = "put", ![p].probe = probe]
    /\ UNCHANGED <<inst, cache, tickets, nreq, last, pending, avail, hist, poll, twin, og, au, mw>>

\* p stores the answer of its probe in the cache (cache.put), whatever the
\* cache holds by now, and getService returns or raises
Store(p) ==
    /\ proc[p].pc = "put"
    /\ \E env \in Returning(proc[p].args) :
         LET r == getServiceAssigned(proc[p], inst, cache, proc[p].ready,
                                     [env EXCEPT !.probe = proc[p].probe])
         IN  /\ cache' = r.cache
             /\ proc' = [proc EXCEPT ![p].pc = "got", ![p].res = Held(r)]
    /\ UNCHANGED <<inst, tickets, nreq, last, pending, avail, hist, poll, twin, og, au, mw>>

\* the handler of p goes on after getService and answers the request: a
\* script request decrypts the password and records the connection source
\* on the instance, a connect request asks for the connection info
Answer(p) ==
    /\ proc[p].pc = "got"
    /\ \E env \in Answering(proc[p].args) :
         LET r == [inst |-> inst, cache |-> cache] @@ proc[p].res
             h == IF Len(proc[p].args) = 4
                  THEN scriptResolved(r, tickets, proc[p].user, proc[p].args, env, nreq + 1)
                  ELSE connectionResolved(r, "connection", tickets, proc[p].user, env,
                                          nreq + 1)
         IN  /\ inst' = h.inst
             /\ cache' = h.cache
             /\ tickets' = h.tickets
    /\ proc' = [proc EXCEPT ![p] = IdleProc]
    /\ UNCHANGED <<nreq, last, pending, avail, hist, poll, twin, og, au, mw>>

\* the provisioning backend finishes an instance while requests are served
Provisioned(i) ==
    /\ i \in 1..Len(inst)
    /\ inst[i].state = "provisioning"
    /\ inst' = [inst EXCEPT ![i].state = "ready"]
    /\ UNCHANGED <<cache, tickets, nreq, last, pending, avail, hist, proc, poll, twin, og, au, mw>>

NextResolve ==
    \/ \E p \in Procs, user \in Users, args \in ResolveArgs : Resolve(p, user, args)
    \/ \E p \in Procs : Locate(p)
    \/ \E p \in Procs : Assign(p)
    \/ \E p \in Procs : Test(p)
    \/ \E p \in Procs, probe \in BOOLEAN : Probe(p, probe)
    \/ \E p \in Procs : Store(p)
    \/ \E p \in Procs : Answer(p)
    \/ \E i \in 1..MaxInst : Provisioned(i)

SpecResolve == Init /\ [][NextResolve]_vars

-----------------------------------------------------------------------------
(* Concurrent redemptions of tickets *)

\* a link is issued: a ticket for an instance and a transport
IssueTicket(i, transport) ==
    /\ Len(tickets) < MaxTickets
    /\ tickets' = issue(tickets, [inst |-> i, transport |-> transport, password |-> Secret],
                        TicketTTL)
    /\ UNCHANGED <<inst, cache, nreq, last, pending, avail, hist, proc, poll, twin, og, au, mw>>

\* a client presents a ticket id to handler p
Present(p, id) ==
    /\ proc[p].pc = "idle"
    /\ proc' = [proc EXCEPT ![p] = [IdleProc EXCEPT !.pc = "redeeming", !.ticket = id]]
    /\ UNCHANGED <<inst, cache, tickets, nreq, last, pending, avail, hist, poll, twin, og, au, mw>>

\* the redemption r of p's ticket, presented when the ticket was in state seen
Redeemed(p, r, seen) ==
    /\ tickets' = r.tickets
    /\ proc' = [proc EXCEPT ![p].pc = "redeemed", ![p].got = r.got, ![p].seen = seen]

\* handler p redeems the ticket it was presented
Redeem(p) ==
    /\ proc[p].pc = "redeeming"
    /\ Redeemed(p, redeem(tickets, proc[p].ticket), TicketState(tickets, proc[p].ticket))
    /\ UNCHANGED <<inst, cache, nreq, last, pending, avail, hist, poll, twin, og, au, mw>>

\* the client of p has its answer
Close(p) ==
    /\ proc[p].pc = "redeemed"
    /\ proc' = [proc EXCEPT ![p] = IdleProc]
    /\ UNCHANGED <<inst, cache, tickets, nreq, last, pending, avail, hist, poll, twin, og, au, mw>>

\* time passes for the tickets
TickTickets ==
    /\ \E i \in 1..Len(tickets) : tickets[i].live
    /\ tickets' = ticketsAge(tickets, READY_CACHE_TIMEOUT)
    /\ UNCHANGED <<inst, cache, nreq, last, pending, avail, hist, proc, poll, twin, og, au, mw>>

NextTickets ==
    \/ \E i \in 1..2, transport \in Transports : IssueTicket(i, transport)
    \/ \E p \in Procs, id \in 1..(MaxTickets + 1) : Present(p, id)
    \/ \E p \in Procs : Redeem(p)
    \/ \E p \in Procs : Close(p)
    \/ TickTickets

SpecTickets == Init /\ [][NextTickets]_vars

-----------------------------------------------------------------------------
(* Properties of the router *)

Envelope == last.value
HasError == "error" \in DOMAIN last.value
Returned == last.out = "return"
Resolvers == {"getService:validate", "getService:novalidate"}
CallSet == {last.calls[i] : i \in 1..Len(last.calls)}
ConnectOps == {"connection", "connection:skip", "script"}

\* C1: the router dispatches on the shape of the arguments: 0 segments to
\* the service list, 1 to the ticket content, 2 to connect with access
\* validation, 3 ending in 'skipChecking' to connect without it, 3 ending in
\* 'udslink' to link issuance, 4 to script; every other shape raises the
\* invalid-request error and invokes no collaborator.
C1_Dispatch ==
    last.op # "none" =>
        LET n == Len(last.args)
        IN  /\ n = 0 => last.op = "serviceList"
            /\ n = 1 => last.op = "getTicketContent"
            /\ n = 2 => last.op = "connection" /\ last.calls[1] = "getService:validate"
            /\ (n = 3 /\ last.args[3] = "skipChecking") =>
                   last.op = "connection:skip" /\ last.calls[1] = "getService:novalidate"
            /\ (n = 3 /\ last.args[3] = "udslink") => last.op = "getUdsLink"
            /\ n = 4 => last.op = "script"
            /\ (n >= 5 \/ (n = 3 /\ last.args[3] \notin {"skipChecking", "udslink"})) =>
                   /\ last.op = "invalid"
                   /\ last.out = "raise"
                   /\ last.value = Exc("RequestError", 0, <<"Invalid Request">>)
                   /\ last.calls = <<>>

\* a request of 5 segments was refused after an instance had been resolved
C1_Witness ==
    /\ Len(last.args) = 5
    /\ last.out = "raise"
    /\ Len(inst) > 0

\* C2: for a user with access to a known service and transport, a connect
\* request made while the instance is provisioning (or not yet created) is
\* answered with an error and retryable '1'; made once the instance is ready
\* and the transport reports it available, it is answered with a connection
\* descriptor, no error and retryable '0'; and the user then owns as many
\* instances of the service as after the first answer.
C2_RetryThenConnect ==
    (/\ last.op = "connection"
     /\ last.env.fault = "none"
     /\ HasAccess(last.user, last.args[1])
     /\ last.args[2] \in TransportsOf(last.args[1])) =>
        LET key == <<last.user, last.args[1], last.args[2]>>
        IN  /\ last.pre.state # "ready" =>
                Returned /\ HasError /\ Envelope.retryable = "1"
            /\ (last.pre.state = "ready" /\ last.pre.available) =>
                /\ Returned /\ ~HasError /\ Envelope.retryable = "0"
                /\ Envelope.result.t = "dict"
                /\ Envelope.result.v.ip = inst[locateUserService(inst, key[1], key[2])].ip
                /\ pending[key] # -1 =>
                       CountOf(inst, key[1], key[2]) = pending[key]

\* the second call: a descriptor after an "in preparation" answer
C2_Witness ==
    /\ last.op = "connection"
    /\ last.pre.state = "ready"
    /\ Returned /\ ~HasError
    /\ pending[<<last.user, last.args[1], last.args[2]>>] = 1

\* C3 as claimed: connect and script answer retryable '1' exactly on
\* ServiceNotReady, and every other failure, whatever its message, with an
\* envelope that carries 'error' and retryable '0'.
C3_AsClaimed ==
    (last.op \in ConnectOps) =>
        /\ Returned
        /\ Envelope.retryable = "1" <=> last.exc.cls = "ServiceNotReadyError"
        /\ (last.exc.cls \notin {"none", "ServiceNotReadyError"}) =>
               HasError /\ Envelope.retryable = "0"

\* C8: only a request of 3 segments ending in 'skipChecking' resolves
\* without access validation; the 2-segment and the 4-segment requests
\* resolve with it, so a user without a grant on the service gets neither a
\* descriptor nor a script from them.
C8_ValidationOnlySkipped ==
    /\ ("getService:novalidate" \in CallSet) =>
           Len(last.args) = 3 /\ last.args[3] = "skipChecking"
    /\ (Len(last.args) \in {2, 4}) =>
           /\ last.calls[1] = "getService:validate"
           /\ ~HasAccess(last.user, last.args[1]) =>
                  /\ Returned
                  /\ Envelope.result = PyStr(<<>>)
                  /\ "getConnectionInfo" \notin CallSet
                  /\ "getEncodedTransportScript" \notin CallSet

\* a user without a grant asked for a script of a service whose instance
\* exists and is ready (resolved before, without validation)
C8_Witness ==
    /\ Len(last.args) = 4
    /\ last.user = "u2"
    /\ last.args[1] = "s1"
    /\ last.pre.state = "ready"
    /\ last.exc.cls = "AccessDenied"

RouterOps == {"serviceList", "connection", "connection:skip", "getUdsLink", "script"}

\* C9 as claimed: in every router operation a failure of a collaborator
\* comes back as an error envelope; none leaves the router as an exception.
C9_AsClaimed ==
    (last.op \in RouterOps /\ last.exc.cls # "none") => Returned /\ HasError

\* C10 as claimed: every value the router returns, for 0 to 4 segments, has
\* 'result', 'date' and 'retryable' in {'0', '1'}.
C10_AsClaimed ==
    Returned =>
        /\ {"result", "date", "retryable"} \subseteq DOMAIN Envelope
        /\ Envelope.retryable \in {"0", "1"}

\* C10, amended: every value returned for 0, 2, 3 or 4 segments has exactly
\* the entries 'result' ('' when no result was given), 'date', 'retryable'
\* in {'0', '1'} and, only when a failure was met, 'error'; the value
\* returned for 1 segment is the empty dict.
C10_EnvelopeShape ==
    Returned =>
        IF Len(last.args) = 1 THEN DOMAIN Envelope = {}
        ELSE /\ {"result", "date", "retryable"} \subseteq DOMAIN Envelope
             /\ DOMAIN Envelope \subseteq {"result", "date", "retryable", "error"}
             /\ Envelope.retryable \in {"0", "1"}
             /\ Envelope.result.t # "none"
             /\ Envelope.date = nreq
             /\ HasError => last.exc.cls # "none" /\ Envelope.result = PyStr(<<>>)

\* a script request answered with the envelope of a decryption failure
C10_Witness ==
    /\ last.op = "script"
    /\ last.exc.cls = "DecryptionError"
    /\ Returned /\ HasError /\ Envelope.retryable = "0"

-----------------------------------------------------------------------------
(* Properties of the readiness cache *)

\* caller t issues its probe in this step
Probes(t) == avail[t].pc = "testServer" /\ avail'[t].pc = "put"

\* C4 as claimed: once an outcome of a probe is stored for an address, no
\* probe of that address is issued while the entry is within its TTL of 30
\* time units, whether the outcome is ready or not ready; a call that finds
\* no entry of the address within the TTL (never stored, or expired) issues
\* a probe.
C4_AsClaimed ==
    [][\A t \in Callers :
          /\ Probes(t) => cache[avail[t].ip].ttl = 0
          /\ (avail[t].pc = "idle" /\ avail'[t] # avail[t]
                 /\ cache[avail'[t].ip].ttl = 0) => avail'[t].pc = "testServer"]_vars

\* C5 as claimed: a probe's outcome is stored for its address with the TTL,
\* 'Y' on success and 'N' on failure, and what isAvailableFor returns is the
\* outcome of the most recent probe of the address: its own probe on a
\* miss, the cached outcome on a hit, whatever the machine would answer
\* now.
C5_AsClaimed ==
    [][\A t \in Callers :
          (avail'[t] # avail[t] /\ avail'[t].pc = "idle") =>
              /\ avail'[t].probed =>
                    /\ cache'[avail'[t].ip] =
                          [val |-> IF avail'[t].probe THEN "Y" ELSE "N",
                           ttl |-> READY_CACHE_TIMEOUT]
                    /\ avail'[t].ret = avail'[t].probe
              /\ ~avail'[t].probed => avail'[t].ret = hist[avail'[t].ip].outcome]_vars

-----------------------------------------------------------------------------
(* Properties of concurrent resolutions and redemptions *)

\* C6: in every state, whatever the interleaving of the concurrent
\* resolutions, a user owns at most one instance of a service.
C6_OneInstancePerUserService ==
    \A user \in Users, service \in Services : CountOf(inst, user, service) <= 1

\* two requests of the same user for the same service, made when the user
\* had no instance, were resolved concurrently: one created the instance,
\* the other, which had been waiting for the section, got the same one
C6_Witness ==
    /\ proc["p1"].pc = "resolved" /\ proc["p2"].pc = "resolved"
    /\ proc["p1"].user = proc["p2"].user
    /\ proc["p1"].got = "created" /\ proc["p2"].got = "reused"
    /\ proc["p1"].found = proc["p2"].found

\* C7: a ticket is redeemed at most once: whatever the interleaving of the
\* attempts, the payload is returned at most once for a ticket, an attempt
\* gets it only from a live ticket, and an attempt on a used ticket is
\* answered NotFound like one on an expired or unknown ticket.
C7_RedeemOnce ==
    /\ \A i \in 1..Len(tickets) : tickets[i].wins <= 1
    /\ \A i \in 1..Len(tickets) : tickets[i].live => tickets[i].wins = 0
    /\ \A p \in Procs :
          proc[p].pc = "redeemed" =>
              /\ proc[p].got = "payload" <=> proc[p].seen = "live"
              /\ proc[p].seen \in {"used", "expired", "unknown"} => proc[p].got = "NotFound"
    /\ \A p \in Procs, q \in Procs :
          (/\ p # q
           /\ proc[p].pc = "redeemed" /\ proc[q].pc = "redeemed"
           /\ proc[p].ticket = proc[q].ticket) =>
              ~(proc[p].got = "payload" /\ proc[q].got = "payload")

\* two attempts on the same ticket raced: one got the payload, the other
\* NotFound
C7_Witness ==
    /\ proc["p1"].pc = "redeemed" /\ proc["p2"].pc = "redeemed"
    /\ proc["p1"].ticket = proc["p2"].ticket
    /\ proc["p1"].got = "payload"
    /\ proc["p2"].got = "NotFound" /\ proc["p2"].seen = "used"

-----------------------------------------------------------------------------
(* Properties of the retry lifecycle and of the script operation *)

\* C11 as claimed: every ServiceNotReady met by connect or script, whatever
\* code c it carries (the default code of an error raised without one
\* included), is answered with retryable '1' and the pre-defined 'service in
\* preparation' message followed by the code c.
C11_AsClaimed ==
    (last.op \in ConnectOps /\ last.exc.cls = "ServiceNotReadyError") =>
        /\ Returned /\ HasError
        /\ Envelope.retryable = "1"
        /\ Envelope.error = errorString(SERVICE_IN_PREPARATION) \o FormatCode(last.exc.code)

-----------------------------------------------------------------------------
(* A client that repeats one connect or script request *)

\* the requests a client repeats, and the surroundings it meets
RetryArgs == {<<"s1", "t1">>, <<"s1", "t1", "skipChecking">>, <<"s1", "t1", "k1", "h1">>}
RetryEnvs ==
    {DefaultEnv, NoProbe, [DefaultEnv EXCEPT !.password = Malformed]}
    \cup Failing({"resolverEmpty", "noAddress"})

\* the envelope without its date
Undated(v) == [k \in DOMAIN v \ {"date"} |-> v[k]]

\* the reading of the clock after one more request (the clock wraps)
ClockNext(n) == (n + 1) % (MaxReq + 1)

\* the router has answered the repeating client with outcome h; the
\* repetition is stable when the user's instance and the availability the
\* transport reports are, before this request, as the previous one left them
Polled(h, pre, user, args, env) ==
    /\ inst' = h.inst
    /\ cache' = h.cache
    /\ tickets' = h.tickets
    /\ nreq' = ClockNext(nreq)
    /\ last' = [user |-> user, args |-> args, env |-> env, op |-> h.op,
                out |-> h.out, value |-> h.value, exc |-> h.exc,
                calls |-> h.calls, pre |-> pre]
    /\ poll' = [phase |-> IF poll.phase = "new" THEN "once" ELSE "again",
                user |-> user, args |-> args, env |-> env,
                prev |-> poll.cur,
                cur |-> [value |-> Undated(h.value), out |-> h.out, exc |-> h.exc,
                         inst |-> h.inst,
                         post |-> PreOf(h.inst, h.cache, user, args, env)],
                stable |-> poll.phase # "new" /\ pre = poll.cur.post]

\* the client makes its request for the first time
Poll(user, args, env) ==
    /\ poll.phase = "new"
    /\ Polled(get(inst, cache, tickets, user, args, env, ClockNext(nreq)),
              PreOf(inst, cache, user, args, env), user, args, env)
    /\ UNCHANGED <<pending, avail, hist, proc, twin, og, au, mw>>

\* the client makes the same request again
Repoll ==
    /\ poll.phase # "new"
    /\ Polled(get(inst, cache, tickets, poll.user, poll.args, poll.env, ClockNext(nreq)),
              PreOf(inst, cache, poll.user, poll.args, poll.env),
              poll.user, poll.args, poll.env)
    /\ UNCHANGED <<pending, avail, hist, proc, twin, og, au, mw>>

\* the machine becomes reachable, or stops being so
ProbeFlips ==
    /\ poll.phase # "new"
    /\ poll' = [poll EXCEPT !.env.probe = ~@]
    /\ UNCHANGED <<inst, cache, tickets, nreq, last, pending, avail, hist, proc, twin, og, au, mw>>

NextRetry ==
    \/ \E user \in Users, args \in RetryArgs, env \in RetryEnvs : Poll(user, args, env)
    \/ Repoll
    \/ \E i \in 1..MaxInst : ProvisioningDone(i)
    \/ Tick
    \/ ProbeFlips

SpecRetry == Init /\ [][NextRetry]_vars

\* a step of Repoll, seen on the clock of requests: of the steps of
\* NextRetry only a repeated request advances it once the client has asked
RepollStep == poll.phase # "new" /\ nreq' = ClockNext(nreq)

\* the client keeps polling and time passes; the provisioning backend may
\* stall for ever
SpecRetryFair == SpecRetry /\ WF_nreq(RepollStep) /\ WF_vars(Tick)

\* C12: connect and script are idempotent under retry: when the same
\* request is made again while the state of the user's instance and the
\* probe outcome the transport reports are as the previous request left
\* them, the envelope is the same up to its date, and the instances, their
\* owners and their recorded connection sources are as the previous request
\* left them.
C12_IdempotentRetry ==
    (poll.phase = "again" /\ poll.stable) =>
        /\ poll.cur.out = "return"
        /\ poll.cur.value = poll.prev.value
        /\ poll.cur.inst = poll.prev.inst

\* a script request repeated on a ready instance: the same script twice,
\* the connection source recorded as before
C12_Witness ==
    /\ poll.phase = "again" /\ poll.stable
    /\ Len(poll.args) = 4
    /\ poll.cur.exc.cls = "none"
    /\ poll.cur.value.result.t = "script"
    /\ poll.prev.inst[1].src = [ip |-> ClientIp, hostname |-> "h1"]
    /\ poll.cur.inst = poll.prev.inst

\* the repeating client asks to connect, holds the grant it needs, and no
\* collaborator fails
PollsConnect ==
    /\ poll.phase # "new"
    /\ Len(poll.args) = 2
    /\ HasAccess(poll.user, poll.args[1])
    /\ poll.env.fault = "none"

\* the instance of the polling user is ready and its machine reachable
ReadyReachable ==
    /\ PollsConnect
    /\ locateUserService(inst, poll.user, poll.args[1]) # 0
    /\ inst[locateUserService(inst, poll.user, poll.args[1])].state = "ready"
    /\ poll.env.probe

\* the last poll was answered with a descriptor, final and without error
PollSucceeded ==
    /\ PollsConnect
    /\ poll.cur.out = "return"
    /\ "error" \notin DOMAIN poll.cur.value
    /\ poll.cur.value.retryable = "0"
    /\ poll.cur.value.result.t = "dict"

\* a poll made while the instance was provisioning (or not yet there) was
\* answered retryable, from ServiceNotReady
ProvisioningIsRetryable ==
    (PollsConnect /\ last.pre.state \in {"absent", "provisioning"}) =>
        /\ poll.cur.out = "return"
        /\ poll.cur.exc.cls = "ServiceNotReadyError"
        /\ poll.cur.value.retryable = "1"

\* C13: a client that keeps polling the same connect request is answered
\* retryable, never with a final error, by every poll made while its
\* instance is provisioning; and if the instance becomes ready and stays
\* ready and reachable, the polls are eventually answered with a final
\* success, also when 'not ready' was cached for the address before.
C13_RetryLiveness ==
    /\ []ProvisioningIsRetryable
    /\ (<>[]ReadyReachable) => (<>[]PollSucceeded)

\* a poll succeeded after the poll before it had been answered 'in
\* preparation' from a failed probe, cached or fresh
C13_Witness ==
    /\ PollSucceeded
    /\ poll.env.probe
    /\ poll.prev.exc = ServiceNotReadyError(CodeProbeFailed)
    /\ poll.prev.post = [state |-> "ready", available |-> FALSE]

\* the router operations that resolve a service for the caller
ResolvingOps == {"connection", "connection:skip", "getUdsLink", "script"}

\* C14 as claimed: connect, connect-skip-check, uds-link and script all
\* answer retryable '1' when the resolution finds the provisioning still in
\* progress; so does a uds-link request made while the instance is in
\* preparation.
C14_AsClaimed ==
    (/\ last.op \in ResolvingOps
     /\ last.exc.cls = "ServiceNotReadyError"
     /\ last.pre.state \in {"absent", "provisioning"}) =>
        Returned /\ Envelope.retryable = "1"

-----------------------------------------------------------------------------
(* A script request and its twin: the same request with another ciphertext *)

\* the session passwords: two plaintexts under the scrambler of the request,
\* one under another scrambler, and a malformed payload
Ciphertexts == {Secret, Enc(<<"other456">>, "k1"), Enc(<<"secret123">>, "k2"), Malformed}

PairArgs == {<<"s1", "t1", "k1", "h1">>}

PairEnvs ==
    {[e EXCEPT !.password = c] :
        e \in {DefaultEnv, NoProbe, [DefaultEnv EXCEPT !.os = "Amiga"]}
              \cup Failing({"transport", "noAddress"}),
        c \in Ciphertexts}

\* the records script() writes to the log: logger.debug('Res: %s', res) once
\* getService has answered, logger.exception("Exception") with the failure
\* when one that is not ServiceNotReady is caught
scriptLog(h, user, args) ==
    (IF "symDecrpyt" \in {h.calls[i] : i \in 1..Len(h.calls)}
     THEN <<[level |-> "debug",
             text |-> <<"Res: ", HexDigit[locateUserService(h.inst, user, args[1]) + 1],
                        args[2]>>]>>
     ELSE <<>>)
    \o (IF h.exc.cls \notin {"none", "ServiceNotReadyError"}
        THEN <<[level |-> "exception", text |-> <<"Exception">> \o h.exc.msg]>>
        ELSE <<>>)

\* what is seen of the script request with outcome h
Seen(h, user, args) ==
    [logs |-> scriptLog(h, user, args),
     sources |-> [i \in 1..Len(h.inst) |-> h.inst[i].src],
     error |-> IF "error" \in DOMAIN h.value THEN PyStr(h.value.error) ELSE PyNone]

\* the request is served with outcome hA; hB is the outcome the same
\* request has, from the same state, with the ciphertext pw
Paired(hA, hB, pre, user, args, env, pw) ==
    /\ Served(hA, pre, user, args, env)
    /\ twin' = [on |-> TRUE, a |-> env.password, b |-> pw,
                seenA |-> Seen(hA, user, args), seenB |-> Seen(hB, user, args)]

\* one script request, and what its twin would have shown
PairScript(user, args, env, pw) ==
    /\ nreq < MaxReq
    /\ Paired(get(inst, cache, tickets, user, args, env, nreq + 1),
              get(inst, cache, tickets, user, args, [env EXCEPT !.password = pw], nreq + 1),
              PreOf(inst, cache, user, args, env), user, args, env, pw)
    /\ UNCHANGED <<avail, hist, proc, poll, og, au, mw>>

NextPair ==
    \/ \E user \in Users, args \in PairArgs, env \in PairEnvs, pw \in Ciphertexts :
          PairScript(user, args, env, pw)
    \/ \E i \in 1..MaxInst : ProvisioningDone(i)
    \/ Tick

SpecPair == Init /\ [][NextPair]_vars

\* C15 as claimed: two script requests that differ only in the password
\* ciphertext show the same log records, the same recorded connection
\* sources and the same error, whatever the two ciphertexts are.
C15_AsClaimed ==
    twin.on => twin.seenA = twin.seenB

\* C15, amended: two script requests that differ only in the password
\* ciphertext show the same log records, the same recorded connection
\* sources and the same error whenever both ciphertexts decrypt, on success
\* and on every failure path; a malformed ciphertext is told from one that
\* decrypts only when the resolution succeeded, and then by the
\* DecryptionError, which is logged and reported, and by the connection
\* source, which is not recorded.
C15_PlaintextConfined ==
    twin.on =>
        /\ (twin.a.ok = twin.b.ok) => twin.seenA = twin.seenB
        /\ (twin.seenA # twin.seenB) =>
               /\ "symDecrpyt" \in CallSet
               /\ twin.a.ok => twin.seenB.error = PyStr(<<"Malformed credential">>)
               /\ twin.b.ok => twin.seenA.error = PyStr(<<"Malformed credential">>)

\* a script was built from one plaintext while its twin carried another:
\* both show the same records, source and (no) error
C15_Witness ==
    /\ twin.on
    /\ twin.a.ok /\ twin.b.ok /\ twin.a.key = "k1" /\ twin.b.key = "k1"
    /\ twin.a.plain # twin.b.plain
    /\ last.op = "script" /\ Returned /\ ~HasError
    /\ Envelope.result.encrypted = twin.a.plain
    /\ Len(twin.seenA.logs) = 1
    /\ twin.seenA = twin.seenB

-----------------------------------------------------------------------------
(* Properties of the script and connect operations *)

\* the steps of script(), in the order of the code
ScriptOrder ==
    <<"getService:validate", "symDecrpyt", "setConnectionSource",
      "getEncodedTransportScript">>

IsStep(c) == c \in {ScriptOrder[i] : i \in 1..Len(ScriptOrder)} \cup {"getService:novalidate"}

\* the steps the last request went through
StepsDone == SelectSeq(last.calls, IsStep)

\* the instance of the user of the last request, 0 when none
LastInstance == locateUserService(inst, last.user, last.args[1])

\* the resolver of the last request handed back an empty address or no
\* transport handle
NotConnectable == last.env.fault \in {"noAddress", "noHandle"}

\* C16: a script request goes through resolve, decrypt with the 3rd segment
\* as scrambler, record the source (request IP, 4th segment as hostname),
\* check of address and handle, build, in this order and up to the step
\* that fails; a script is built and returned only when the resolved address
\* is not empty and the transport handle is there, otherwise the answer is
\* the retryable ServiceNotReady envelope and the builder is not invoked.
C16_ScriptSteps ==
    last.op = "script" =>
        /\ Len(StepsDone) \in 1..Len(ScriptOrder)
        /\ StepsDone = SubSeq(ScriptOrder, 1, Len(StepsDone))
        /\ "setConnectionSource" \in CallSet =>
               /\ symDecrpyt(last.env.password, last.args[3]).exc = NoExc
               /\ inst[LastInstance].src = [ip |-> ClientIp, hostname |-> last.args[4]]
        /\ "getEncodedTransportScript" \in CallSet => ~NotConnectable
        /\ (Returned /\ Envelope.result.t = "script") =>
               /\ "getEncodedTransportScript" \in CallSet
               /\ Envelope.result.ip = inst[LastInstance].ip
               /\ Envelope.result.encrypted =
                      symDecrpyt(last.env.password, last.args[3]).plain
        /\ ("setConnectionSource" \in CallSet /\ NotConnectable) =>
               /\ Returned
               /\ last.exc = ServiceNotReadyError(CodeDefault)
               /\ Envelope.retryable = "1"
               /\ Envelope.result = PyStr(<<>>)

\* a script was built with the password decrypted under the scrambler of
\* the request, which is not the one of the session
C16_Witness ==
    /\ last.op = "script"
    /\ last.args[3] = "k2"
    /\ StepsDone = ScriptOrder
    /\ Returned /\ Envelope.result.t = "script"
    /\ Envelope.result.encrypted = <<"garbage">>

\* the request l failed in the resolver: an unknown id, a missing grant, a
\* full pool, an internal failure, or ServiceNotReady with the resolver's code
ResolutionFailed(l) ==
    \/ l.exc.cls \in {"NotFound", "AccessDenied", "MaxServicesReached"}
    \/ l.exc.cls = "Exception" /\ l.env.fault \in {"resolver", "resolverEmpty"}
    \/ l.exc.cls = "ServiceNotReadyError" /\ l.exc.code \in {CodeProvisioning, CodeProbeFailed}

\* the request l failed in the decryption of the password
DecryptionFailed(l) == l.exc.cls = "DecryptionError"

\* the step is a request served by the router
Serves == nreq' # nreq

\* the step leaves every recorded connection source as it was (an instance
\* created by the step has none)
SourcesKept ==
    \A i \in 1..Len(inst') :
        inst'[i].src = IF i <= Len(inst) THEN inst[i].src ELSE NoSource

\* C17: a script request that fails in the resolution (whatever the
\* resolver's error, ServiceNotReady included) or in the decryption of the
\* password leaves the recorded connection sources unchanged and does not
\* invoke the script builder.
C17_FailedScriptKeepsSource ==
    [][(/\ Serves
        /\ last'.op = "script"
        /\ ResolutionFailed(last') \/ DecryptionFailed(last')) =>
           /\ SourcesKept
           /\ \A i \in 1..Len(last'.calls) :
                  last'.calls[i] \notin {"setConnectionSource", "getEncodedTransportScript"}]_vars

\* a script request reporting the hostname h2 failed in the decryption, and
\* the instance still has the source of an earlier request, h1
C17_Witness ==
    /\ last.op = "script"
    /\ last.exc.cls = "DecryptionError"
    /\ last.args[4] = "h2"
    /\ LastInstance # 0
    /\ inst[LastInstance].src = [ip |-> ClientIp, hostname |-> "h1"]

\* C18: a script request whose resolution and decryption succeed records
\* the connection source (request IP, reported hostname) on the user's
\* instance, also when it then ends as the retryable ServiceNotReady of an
\* empty address or an absent handle; requests of 2 and of 3 segments
\* record none.
C18_SourceRecorded ==
    [][Serves =>
          /\ (/\ last'.op = "script"
              /\ ~ResolutionFailed(last') /\ ~DecryptionFailed(last')) =>
                 /\ \E i \in 1..Len(last'.calls) : last'.calls[i] = "setConnectionSource"
                 /\ locateUserService(inst', last'.user, last'.args[1]) # 0
                 /\ inst'[locateUserService(inst', last'.user, last'.args[1])].src =
                        [ip |-> ClientIp, hostname |-> last'.args[4]]
          /\ (Len(last'.args) \in {2, 3}) =>
                 /\ SourcesKept
                 /\ \A i \in 1..Len(last'.calls) : last'.calls[i] # "setConnectionSource"]_vars

\* a script request ended as ServiceNotReady because the resolved address
\* was empty, and its hostname is recorded on the instance
C18_Witness ==
    /\ last.op = "script"
    /\ last.env.fault = "noAddress"
    /\ last.exc = ServiceNotReadyError(CodeDefault)
    /\ Envelope.retryable = "1"
    /\ inst[LastInstance].src = [ip |-> ClientIp, hostname |-> last.args[4]]

\* the plaintext of the session's password, as CredentialCipher recovers it
\* under the scrambler of the session
SessionPlaintext(env) == symDecrpyt(env.password, env.password.key).plain

\* C19 as claimed: on the 2-segment connect the transport's
\* getConnectionInfo is handed the plaintext CredentialCipher recovers from
\* the session's encrypted password, which is then the password of the
\* returned descriptor.
C19_AsClaimed ==
    (/\ last.op = "connection"
     /\ "getConnectionInfo" \in CallSet
     /\ Returned /\ last.exc.cls = "none") =>
        Envelope.result.v.password = SessionPlaintext(last.env)

\* the connect operations
ConnectionOps == {"connection", "connection:skip"}

DescriptorKeys == {"username", "password", "domain", "protocol", "ip"}

\* the resolver of the last request handed back no transport handle: no
\* validation was asked for, or the transport gave none
NoHandle == last.op = "connection:skip" \/ last.env.fault = "noHandle"

\* C20: every connect or connect-skip-check request that met no failure is
\* answered with a descriptor that has the keys username, password, domain,
\* protocol and ip, ip being the resolved address; when the resolver hands
\* back no transport handle, getConnectionInfo is not called and the
\* descriptor is exactly username '', password '', domain '', protocol
\* 'unknown' and that ip; with a handle, getConnectionInfo is called.
C20_Descriptor ==
    (last.op \in ConnectionOps /\ last.exc.cls = "none") =>
        /\ Returned /\ ~HasError /\ Envelope.retryable = "0"
        /\ Envelope.result.t = "dict"
        /\ DescriptorKeys \subseteq DOMAIN Envelope.result.v
        /\ Envelope.result.v.ip = inst[LastInstance].ip
        /\ NoHandle <=> "getConnectionInfo" \notin CallSet
        /\ NoHandle =>
               Envelope.result.v =
                   [username |-> <<>>, password |-> <<>>, domain |-> <<>>,
                    protocol |-> "unknown", ip |-> inst[LastInstance].ip]

\* a validated connect was resolved without a transport handle and answered
\* with the bare descriptor
C20_Witness ==
    /\ last.op = "connection"
    /\ last.env.fault = "noHandle"
    /\ Returned /\ ~HasError
    /\ Envelope.result.t = "dict"
    /\ Envelope.result.v.protocol = "unknown"
    /\ Envelope.result.v.ip = 1

-----------------------------------------------------------------------------
(* Properties of the ticket placeholder *)

\* C21: a request of 1 segment, whatever the segment, is answered with the
\* empty placeholder, invokes no resolver, transport, cipher or ticket
\* operation, and leaves the instances and their owners, the tickets and
\* the readiness cache as they were.
C21_PlaceholderFrame ==
    [][(Serves /\ Len(last'.args) = 1) =>
          /\ last'.op = "getTicketContent"
          /\ last'.out = "return"
          /\ DOMAIN last'.value = {}
          /\ last'.calls = <<>>
          /\ inst' = inst
          /\ tickets' = tickets
          /\ cache' = cache]_vars

\* the placeholder was returned while an instance was assigned, a ticket
\* was live and the cache held an entry
C21_Witness ==
    /\ Len(last.args) = 1
    /\ last.out = "return" /\ DOMAIN last.value = {}
    /\ Len(inst) > 0
    /\ Len(tickets) > 0 /\ tickets[1].live
    /\ \E a \in Addrs : cache[a].ttl > 0

-----------------------------------------------------------------------------
(* The client of the provisioning backend (OpenGnsys) *)

PyList(l) == [t |-> "list", v |-> l]

\* how a call ends: a returned value or a raised exception
OgReturn(v) == [out |-> "return", value |-> v, exc |-> NoExc]
OgRaise(e) == [out |-> "raise", value |-> PyNone, exc |-> e]

RECURSIVE DecDigits(_)
\* str(n) of an int n >= 0, as '{}'.format writes it
DecDigits(n) ==
    IF n < 10 THEN <<HexDigit[n + 1]>>
    ELSE DecDigits(n \div 10) \o <<HexDigit[(n % 10) + 1]>>

\* the paths of the backend (module urls): LOGIN, OUS, LABS, IMAGES and
\* RESERVE, the last three formatted with ou and image
urls(name, ou, image) ==
    CASE name = "LOGIN" -> <<"login">>
      [] name = "OUS" -> <<"ous">>
      [] name = "LABS" -> <<"ous", ou, "labs">>
      [] name = "IMAGES" -> <<"ous", ou, "images">>
      [] OTHER -> <<"ous", ou, "images", image, "reserve">>

LOGIN == urls("LOGIN", "", "")

\* OpenGnsysClient._ogUrl, for the endpoint the client was built with
_ogUrl(path) == <<"https://og.example", "/">> \o path

\* a request made with the requests library, as it goes on the network;
\* OpenGnsysClient.headers has Authorization only with a session key
Sent(verb, path, data, auth) ==
    [verb |-> verb, url |-> _ogUrl(path), data |-> data,
     headers |-> IF auth # "None"
                 THEN ("content-type" :> "application/json") @@ ("Authorization" :> auth)
                 ELSE ("content-type" :> "application/json")]

\* ensureResponseIsValid: a response that is not ok raises unless its code
\* is 200 (a response without the attribute 'code' raises AttributeError),
\* the message being errMsg, then response.json()['message'] or the content
\* when that fails, then the code; what is left is parsed by json.loads
ensureResponseIsValid(response, errMsg) ==
    IF response.ok = FALSE /\ response.code.t = "none"
    THEN OgRaise(Exc("AttributeError", 0, <<"code">>))
    ELSE IF response.ok = FALSE /\ response.code.v # 200
    THEN OgRaise(Exc("Exception", 0,
                     (IF errMsg = PyNone THEN <<"Invalid response">> ELSE errMsg.v)
                        \o <<": ",
                             IF /\ response.content.json
                                /\ response.content.v.t = "dict"
                                /\ "message" \in DOMAIN response.content.v.v
                             THEN response.content.v.v["message"]
                             ELSE response.content.raw,
                             ", (">>
                        \o DecDigits(response.code.v) \o <<")">>))
    ELSE IF response.content.json THEN OgReturn(response.content.v)
    ELSE OgRaise(Exc("ValueError", 0, <<"Expecting value">>))

\* the canned answers of the fake responder (module fake): fake.post and
\* fake.get
fake(verb, path) ==
    IF verb = "POST" /\ path = LOGIN THEN OgReturn(PyDict("apikey" :> "fakeKey"))
    ELSE IF verb = "GET" /\ path = urls("OUS", "", "")
    THEN OgReturn(PyList(<<("id" :> "1") @@ ("name" :> "ou")>>))
    ELSE IF verb = "GET" /\ Len(path) = 3 /\ path[3] \in {"labs", "images"}
    THEN OgReturn(PyList(
            <<("id" :> "1") @@ ("name" :> "room") @@ ("inremotepc" :> "True"),
              ("id" :> "2") @@ ("name" :> "room") @@ ("inremotepc" :> "False")>>))
    ELSE IF verb = "GET" /\ Len(path) = 5 /\ path[5] = "reserve"
    THEN OgReturn(PyDict(("id" :> "7") @@ ("name" :> "pc")))
    ELSE OgRaise(Exc("Exception", 0, <<"Unknown FAKE URL on ", verb>>))

\* what one operation did: its outcome, the requests put on the network,
\* the requests answered by the fake responder, the responses validated
Wire(res, net, canned, checked) ==
    [res |-> res, net |-> net, canned |-> canned, checked |-> checked]

\* OpenGnsysClient._post
_post(fake_, auth, path, data, errMsg, response) ==
    IF ~fake_
    THEN Wire(ensureResponseIsValid(response, errMsg),
              <<Sent("POST", path, data, auth)>>, <<>>, 1)
    ELSE Wire(fake("POST", path), <<>>, <<[verb |-> "POST", path |-> path]>>, 0)

\* OpenGnsysClient._get
_get(fake_, auth, path, errMsg, response) ==
    IF ~fake_
    THEN Wire(ensureResponseIsValid(response, errMsg),
              <<Sent("GET", path, PyNone, auth)>>, <<>>, 1)
    ELSE Wire(fake("GET", path), <<>>, <<[verb |-> "GET", path |-> path]>>, 0)

\* OpenGnsysClient._delete: it does not read the FAKE flag
_delete(fake_, auth, path, errMsg, response) ==
    Wire(ensureResponseIsValid(response, errMsg),
         <<Sent("DELETE", path, PyNone, auth)>>, <<>>, 1)

\* connect after its login request w: self.auth = auth['apikey'] is reached
\* when the request returned, and assigns when the answer is a dict with
\* the key (KeyError without it, TypeError for a list)
connectLogin(c, w) ==
    IF w.res.out = "raise"
    THEN [auth |-> c.auth, res |-> w.res, login |-> TRUE, wire |-> w]
    ELSE IF w.res.value.t # "dict"
    THEN [auth |-> c.auth, login |-> TRUE, wire |-> w,
          res |-> OgRaise(Exc("TypeError", 0, <<"list indices must be integers">>))]
    ELSE IF "apikey" \notin DOMAIN w.res.value.v
    THEN [auth |-> c.auth, login |-> TRUE, wire |-> w,
          res |-> OgRaise(Exc("KeyError", 0, <<"apikey">>))]
    ELSE [auth |-> w.res.value.v["apikey"], login |-> TRUE, wire |-> w,
          res |-> OgReturn(PyNone)]

\* a connect that logs in whether or not a key is held
connectAlways(c) == "login"

\* OpenGnsysClient.connect up to its login request: with a session key
\* held it returns to inner at once, otherwise the login follows
connect(c) == IF c.auth # "None" THEN "inner" ELSE "login"

\* the login request of connect, sent with the headers built from the key
\* held when it was sent (auth) and answered by response, and the
\* assignment of self.auth that follows
connectPost(c, auth, response) ==
    connectLogin(c, _post(c.fake, auth, LOGIN,
                          PyDict(("username" :> "admin") @@ ("password" :> "secret")),
                          PyStr(<<"Loggin in">>), response))

\* the list comprehension of getLabs and getImages over what _get gave:
\* the entries whose l.get('inremotepc', False) is True, as
\* {'id': l['id'], 'name': l['name']}; KeyError for the first of them that
\* lacks a key, AttributeError when the answer is a dict with keys
Listing(w) ==
    IF w.res.out = "raise" THEN w
    ELSE IF w.res.value.t = "dict"
    THEN [w EXCEPT !.res =
            IF DOMAIN w.res.value.v = {} THEN OgReturn(PyList(<<>>))
            ELSE OgRaise(Exc("AttributeError", 0, <<"get">>))]
    ELSE LET kept == SelectSeq(w.res.value.v,
                               LAMBDA l : "inremotepc" \in DOMAIN l
                                            /\ l["inremotepc"] = "True")
             bad == {i \in DOMAIN kept : ~({"id", "name"} \subseteq DOMAIN kept[i])}
         IN  [w EXCEPT !.res =
                IF bad # {}
                THEN OgRaise(Exc("KeyError", 0,
                        <<IF "id" \in DOMAIN kept[CHOOSE i \in bad : \A j \in bad : i <= j]
                          THEN "name" ELSE "id">>))
                ELSE OgReturn(PyList([i \in DOMAIN kept |->
                                        [k \in {"id", "name"} |-> kept[i][k]]]))]

OgMethods == {"getOus", "getLabs", "getImages", "reserve", "unreserve", "status"}

\* the body of a request method, called with the arguments of the call:
\* getOus, getLabs, getImages and reserve make one _get, unreserve and
\* status are 'pass'
fnc(method, args, fake_, auth, response) ==
    CASE method = "getOus" ->
            _get(fake_, auth, urls("OUS", "", ""), PyStr(<<"Getting list of ous">>), response)
      [] method = "getLabs" ->
            Listing(_get(fake_, auth, urls("LABS", args[1], ""), PyNone, response))
      [] method = "getImages" ->
            Listing(_get(fake_, auth, urls("IMAGES", args[1], ""), PyNone, response))
      [] method = "reserve" ->
            _get(fake_, auth, urls("RESERVE", args[1], args[2]), PyNone, response)
      [] OTHER -> Wire(OgReturn(PyNone), <<>>, <<>>, 0)

\* an operation of the client used directly
operation(op, fake_, auth, path, response) ==
    CASE op = "_post" -> _post(fake_, auth, path, PyNone, PyNone, response)
      [] op = "_get" -> _get(fake_, auth, path, PyNone, response)
      [] OTHER -> _delete(fake_, auth, path, PyNone, response)

\* whether a call waits for the network: _post and _get do unless the
\* module is built with the flag set, _delete always does, a body that is
\* 'pass' never does
Waits(method, fake_) ==
    IF method \in {"unreserve", "status"} THEN FALSE
    ELSE IF method = "_delete" THEN TRUE
    ELSE ~fake_

\* the client once the call of method by thread t ended, and what the call
\* did: ran tells whether the body was called, b is what the body did
Called(c, t, method, ran, b) ==
    LET th == c.thr[t]
    IN  [c EXCEPT
           !.thr[t] = OgIdle,
           !.last = [method |-> method,
                     steps |-> <<"connect">> \o (IF th.cn.login THEN <<"login">> ELSE <<>>)
                                  \o (IF ran THEN <<"body">> ELSE <<>>),
                     out |-> b.res.out, exc |-> b.res.exc, value |-> b.res.value,
                     authBefore |-> th.authBefore,
                     authAtLogin |-> th.authAtLogin,
                     authAtBody |-> IF ran THEN th.authAtBody ELSE "None",
                     connected |-> th.cn.res.out,
                     again |-> th.again,
                     overlap |-> th.overlap,
                     net |-> th.cn.net \o (IF ran THEN b.net ELSE <<>>),
                     canned |-> th.cn.canned \o (IF ran THEN b.canned ELSE <<>>),
                     checked |-> th.cn.checked + (IF ran THEN b.checked ELSE 0)]]

\* the client once the operation thread t used directly ended; w is what
\* the operation did
Used(c, t, w) ==
    LET th == c.thr[t]
    IN  [c EXCEPT
           !.thr[t] = OgIdle,
           !.last = [method |-> th.method, steps |-> <<"body">>,
                     out |-> w.res.out, exc |-> w.res.exc, value |-> w.res.value,
                     authBefore |-> th.authBefore, authAtLogin |-> "None",
                     authAtBody |-> th.authAtBody,
                     connected |-> "none", again |-> FALSE, overlap |-> th.overlap,
                     net |-> w.net, canned |-> w.canned, checked |-> w.checked]]

\* the body of the method is called and builds its request with the
\* headers of this moment: thread t waits for the answer, or the body has
\* ended already when it waits for nothing (any is then an answer nobody
\* reads)
fncCalled(c, t, method, args, any) ==
    LET b == [c EXCEPT !.thr[t].pc = "body", !.thr[t].method = method,
                       !.thr[t].authAtBody = c.auth]
    IN  IF Waits(method, c.fake) THEN b
        ELSE Called(b, t, method, TRUE, fnc(method, args, c.fake, c.auth, any))

\* a decorator that runs the body even when connect raised
ensureConnectedLenient(c, t, method, args, any) == fncCalled(c, t, method, args, any)

\* inner of ensureConnected after args[0].connect() of thread t ended: an
\* exception of connect leaves inner, otherwise the body of the method is
\* called
ensureConnectedWith(c, t, method, args, any) ==
    IF c.thr[t].cn.res.out = "raise"
    THEN Called(c, t, method, FALSE, Wire(c.thr[t].cn.res, <<>>, <<>>, 0))
    ELSE fncCalled(c, t, method, args, any)

\* the request thread t waits on is answered: the operation validates the
\* response and returns, and with it the body of the method and inner; the
\* request went out with the key held when it was sent
answered(c, t, args, response) ==
    LET th == c.thr[t]
    IN  IF th.pc = "body"
        THEN Called(c, t, th.method, TRUE,
                    fnc(th.method, args, c.fake, th.authAtBody, response))
        ELSE Used(c, t, operation(th.method, c.fake, th.authAtBody, th.path, response))

\* thread t begins a call of the client as th; the calls under way
\* overlap with it
Begun(c, t, th) ==
    [c EXCEPT
       !.ncalls = @ + 1,
       !.thr = [u \in OgThreads |->
                  IF u = t
                  THEN [th EXCEPT !.overlap = (\E v \in OgThreads \ {t} :
                                                  c.thr[v].pc # "idle")]
                  ELSE IF c.thr[u].pc # "idle" THEN [c.thr[u] EXCEPT !.overlap = TRUE]
                  ELSE c.thr[u]]]

\* ensureConnected, the first step of inner: args[0].connect() is called
\* and tests self.auth
ensureConnected(c, t) ==
    Begun(c, t, [OgIdle EXCEPT
                   !.pc = connect(c),
                   !.authBefore = c.auth,
                   !.again = (c.last.connected = "raise"),
                   !.cn = [res |-> OgReturn(PyNone), login |-> FALSE,
                           net |-> <<>>, canned |-> <<>>, checked |-> 0]])

\* the client once the login request of thread t was answered: the key is
\* assigned and the login counted when the answer carried one
connected(c, t, response) ==
    LET cn == connectPost(c, c.thr[t].authAtLogin, response)
    IN  [c EXCEPT
           !.auth = cn.auth,
           !.logins = @ + (IF cn.res.out = "return" THEN 1 ELSE 0),
           !.thr[t].pc = "inner",
           !.thr[t].cn = [res |-> cn.res, login |-> TRUE, net |-> cn.wire.net,
                          canned |-> cn.wire.canned, checked |-> cn.wire.checked]]

\* connect of thread t, which found no key, calls _post: the login request
\* is built with the headers of this moment and sent, and the thread waits
\* for the answer; the fake responder answers at once (any is then an
\* answer nobody reads)
posted(c, t, any) ==
    LET b == [c EXCEPT !.thr[t].pc = "posted", !.thr[t].authAtLogin = c.auth]
    IN  IF Waits("_post", c.fake) THEN b ELSE connected(b, t, any)

\* thread t uses an operation directly on a path: the request is built
\* with the headers of this moment and sent, and the thread waits for the
\* answer, or the fake responder answers at once
used(c, t, op, path, any) ==
    LET b == Begun(c, t, [OgIdle EXCEPT !.pc = "raw", !.method = op, !.path = path,
                                        !.authBefore = c.auth, !.authAtBody = c.auth])
    IN  IF Waits(op, c.fake) THEN b
        ELSE Used(b, t, operation(op, c.fake, c.auth, path, any))

-----------------------------------------------------------------------------
(* The client called by its owner *)

\* a response of the backend: ok, code (None when the response has no such
\* attribute) and content, which json.loads parses or not
Response(ok, code, raw, json, v) ==
    [ok |-> ok, code |-> code, content |-> [raw |-> raw, json |-> json, v |-> v]]

\* what the backend may answer: a session key, a refusal with or without a
\* code, a page that is not JSON, lists of rooms, an empty object
OgResponses ==
    {Response(TRUE, PyNone, "{apikey}", TRUE, PyDict("apikey" :> "key1")),
     Response(TRUE, PyNone, "{apikey}", TRUE, PyDict("apikey" :> "key2")),
     Response(FALSE, PyInt(200), "{apikey}", TRUE, PyDict("apikey" :> "key1")),
     Response(FALSE, PyNone, "{message}", TRUE, PyDict("message" :> "denied")),
     Response(FALSE, PyInt(401), "{message}", TRUE, PyDict("message" :> "denied")),
     Response(FALSE, PyInt(500), "<html>", FALSE, PyNone),
     Response(TRUE, PyNone, "<html>", FALSE, PyNone),
     Response(TRUE, PyNone, "{}", TRUE, PyDict([x \in {} |-> ""])),
     Response(TRUE, PyNone, "[rooms]", TRUE,
              PyList(<<("id" :> "3") @@ ("name" :> "room") @@ ("inremotepc" :> "True"),
                       ("id" :> "4") @@ ("name" :> "lab"),
                       ("id" :> "5") @@ ("name" :> "room") @@ ("inremotepc" :> "False")>>)),
     Response(TRUE, PyNone, "[room]", TRUE, PyList(<<("inremotepc" :> "True")>>))}

\* what the backend answers the request of a method's body: lists of
\* rooms, an empty object, a refusal
OgListings ==
    {r \in OgResponses : r.content.raw \in {"[rooms]", "[room]", "{}", "{message}"}}

\* an answer nobody reads
Unread == Response(TRUE, PyNone, "{}", TRUE, PyDict([x \in {} |-> ""]))

RawOps == {"_post", "_get", "_delete"}

\* the arguments of the calls, and the paths the operations are given
OgArgs == <<"ou1", "img1">>
RawPaths == {LOGIN, <<"ous">>}

\* thread t calls a request method of the client: inner calls connect,
\* which tests self.auth
OgCall(t) ==
    /\ og.ncalls < MaxCalls
    /\ og.thr[t].pc = "idle"
    /\ og' = ensureConnected(og, t)
    /\ UNCHANGED <<inst, cache, tickets, nreq, last, pending, avail, hist, proc, poll, twin, au, mw>>

\* the connect of thread t found no session key: its login request is sent
OgPost(t) ==
    /\ og.thr[t].pc = "login"
    /\ og' = posted(og, t, Unread)
    /\ UNCHANGED <<inst, cache, tickets, nreq, last, pending, avail, hist, proc, poll, twin, au, mw>>

\* the login request of thread t is answered, and self.auth is assigned
\* from the answer
OgLoginStep(t) ==
    /\ og.thr[t].pc = "posted"
    /\ \E login \in OgResponses : og' = connected(og, t, login)
    /\ UNCHANGED <<inst, cache, tickets, nreq, last, pending, avail, hist, proc, poll, twin, au, mw>>

\* connect ended in thread t: inner goes on with the body of the method
\* called, which sends its request, or is left with the exception of
\* connect
OgInner(t) ==
    /\ og.thr[t].pc = "inner"
    /\ \E method \in OgMethods : og' = ensureConnectedWith(og, t, method, OgArgs, Unread)
    /\ UNCHANGED <<inst, cache, tickets, nreq, last, pending, avail, hist, proc, poll, twin, au, mw>>

\* thread t uses an operation of the client directly, on a path
OgRaw(t) ==
    /\ og.ncalls < MaxCalls
    /\ og.thr[t].pc = "idle"
    /\ \E op \in RawOps, path \in RawPaths : og' = used(og, t, op, path, Unread)
    /\ UNCHANGED <<inst, cache, tickets, nreq, last, pending, avail, hist, proc, poll, twin, au, mw>>

\* the request thread t waits on, of the body of a method or of an
\* operation used directly, is answered
OgAnswer(t) ==
    /\ og.thr[t].pc \in {"body", "raw"}
    /\ \E response \in IF og.thr[t].pc = "body" THEN OgListings ELSE OgResponses :
         og' = answered(og, t, OgArgs, response)
    /\ UNCHANGED <<inst, cache, tickets, nreq, last, pending, avail, hist, proc, poll, twin, au, mw>>

\* a client in a module built with the flag set or clear
InitOg ==
    /\ InitBroker
    /\ og \in {OpenGnsysClient(f) : f \in BOOLEAN}
    /\ au = Authenticator(AuthType({}), <<"ua", "ua", "ub">>, {})
    /\ mw = RedirectMiddleware(NO_REDIRECT)

NextOg ==
    \/ \E t \in OgThreads : OgCall(t)
    \/ \E t \in OgThreads : OgPost(t)
    \/ \E t \in OgThreads : OgLoginStep(t)
    \/ \E t \in OgThreads : OgInner(t)
    \/ \E t \in OgThreads : OgRaw(t)
    \/ \E t \in OgThreads : OgAnswer(t)

SpecOg == InitOg /\ [][NextOg]_vars

\* no call of the client is under way
OgQuiet == \A t \in OgThreads : og.thr[t].pc = "idle"

-----------------------------------------------------------------------------
(* Properties of the provisioning-backend client *)

OgBody == "body" \in {og.last.steps[i] : i \in DOMAIN og.last.steps}
OgLogin == "login" \in {og.last.steps[i] : i \in DOMAIN og.last.steps}

ConnectsFirst ==
    og.last.method \in OgMethods =>
        /\ og.last.steps # <<>>
        /\ og.last.steps[1] = "connect"
        /\ OgLogin <=> og.last.authBefore = "None"
        /\ OgLogin => og.last.authAtLogin = "None"
        /\ OgBody => og.last.authAtBody # "None" /\ og.auth # "None"

\* the login of thread t succeeds in this step
LoginSucceeds(t) ==
    /\ og.thr[t].pc \in {"login", "posted"} /\ og'.thr[t].pc = "inner"
    /\ og'.logins = og.logins + 1

\* C22: in a sequence of calls of the request methods, that is, for every
\* call made while no other call of the client is under way: the call
\* starts with a connect step, its login request is made exactly when no
\* session key is held and is sent without a key, and its body runs with a
\* key; a login succeeds only on a client that has not logged in yet, so
\* such calls log in at most once; and the key, once set, is changed by no
\* such call.
C22_ConnectOnce ==
    /\ [](~og.last.overlap => ConnectsFirst)
    /\ [][\A t \in OgThreads :
            (LoginSucceeds(t) /\ ~og.thr[t].overlap) =>
                og.logins = 0 /\ og.auth = "None"]_vars
    /\ [][(og.auth # "None" /\ og'.auth # og.auth) =>
            \E t \in OgThreads : LoginSucceeds(t) /\ og.thr[t].overlap]_vars

\* a second call of a request method, made after the first logged in and
\* with no other call under way, found the key, sent no login and ran its
\* body with the key
C22_Witness ==
    /\ og.ncalls >= 2
    /\ og.logins = 1
    /\ og.last.method \in OgMethods
    /\ ~og.last.overlap
    /\ og.last.authBefore # "None"
    /\ og.last.steps = <<"connect", "body">>
    /\ og.last.authAtBody = og.auth

\* C23 as claimed: with the FAKE flag set no operation of the client (post,
\* get, delete) and no request method puts a request on the network; with
\* the flag clear every operation makes exactly one request with the
\* network client and has its response validated.
C23_AsClaimed ==
    /\ og.fake => og.last.net = <<>>
    /\ (~og.fake /\ og.last.method \in RawOps) =>
            /\ Len(og.last.net) = 1
            /\ og.last.checked = 1
            /\ og.last.canned = <<>>

\* the connect step of the call raised
LoginFailed(l) == l.method \in OgMethods /\ l.connected = "raise"

\* the login of thread t fails in this step
LoginFails(t) == og.thr[t].pc = "posted" /\ og'.thr[t].cn.res.out = "raise"

\* thread t calls a request method in this step
OgCalls(t) == og.thr[t].pc = "idle" /\ og'.thr[t].pc \in {"login", "inner"}

FailedLoginLeaves ==
    LoginFailed(og.last) =>
        /\ og.last.out = "raise"
        /\ og.last.exc.cls \in {"Exception", "AttributeError", "ValueError",
                                "KeyError", "TypeError"}
        /\ ~OgBody
        /\ Len(og.last.net) = 1
        /\ og.last.net[1].verb = "POST" /\ og.last.net[1].url = _ogUrl(LOGIN)
        /\ (~og.last.overlap /\ OgQuiet) => og.auth = "None" /\ og.logins = 0

\* C24: when the login request fails, the call of the request method ends
\* with that failure, the method's own request is not made (the login is
\* the only request the call sent), the failed login leaves the session key
\* as it was, null when no other call of the client was under way, and the
\* next call of a request method makes the login request again.
C24_LoginFailure ==
    /\ []FailedLoginLeaves
    /\ [][\A t \in OgThreads :
            LoginFails(t) =>
                /\ og'.auth = og.auth /\ og'.logins = og.logins
                /\ ~og.thr[t].overlap => og'.auth = "None"]_vars
    /\ [][\A t \in OgThreads :
            (OgCalls(t) /\ (og.auth = "None"
                              \/ (LoginFailed(og.last) /\ ~og.last.overlap /\ OgQuiet))) =>
                og'.thr[t].pc = "login"]_vars
    /\ [](og.last.method \in OgMethods /\ OgLogin /\ ~og.fake =>
            /\ Len(og.last.net) >= 1
            /\ og.last.net[1].verb = "POST" /\ og.last.net[1].url = _ogUrl(LOGIN))

\* a failed login followed, with no other call under way, by a call that
\* logged in and ran its body
C24_Witness ==
    /\ og.ncalls >= 2
    /\ og.last.again /\ ~og.last.overlap
    /\ og.last.method \in OgMethods
    /\ og.last.authBefore = "None"
    /\ og.last.steps = <<"connect", "login", "body">>
    /\ og.logins = 1
    /\ og.last.net[1].url = _ogUrl(LOGIN)
    /\ og.fake = FALSE

-----------------------------------------------------------------------------
(* The REST handler of authenticators *)

\* the function a class defines under a name
Function(cls, name) == [kind |-> "function", cls |-> cls, name |-> name, self |-> "none"]

\* type_.name: the function of the subclass when it overrides the base
\* method, the function of auths.Authenticator when it inherits it
ClassAttr(type_, name) ==
    Function(IF name \in type_.overrides THEN type_.cls ELSE "Authenticator", name)

\* auth.name for an instance auth of type_: the method that binds the
\* function to auth
InstanceAttr(type_, name) == [ClassAttr(type_, name) EXCEPT !.kind = "method", !.self = "auth"]

\* Authenticators.typeInfo: the capabilities of an authenticator type, and
\* nothing for a type that is not one
typeInfo(type_) ==
    IF type_.authenticator
    THEN [canSearchUsers |->
             ClassAttr(type_, "searchUsers") # Function("Authenticator", "searchUsers"),
          canSearchGroups |->
             ClassAttr(type_, "searchGroups") # Function("Authenticator", "searchGroups"),
          canCreateUsers |->
             ClassAttr(type_, "createUser") # Function("Authenticator", "createUser")]
    ELSE <<>>

\* canDoSearch of search: Python reads 'a and b or c' as '(a and b) or c',
\* and the attributes are taken from the instance
canDoSearch(type_, auth) ==
    \/ /\ type_ = "user"
       /\ InstanceAttr(auth, "searchUsers") # Function("Authenticator", "searchUsers")
    \/ InstanceAttr(auth, "searchGroups") # Function("Authenticator", "searchGroups")

RECURSIVE DigitsValue(_)
\* the number decimal digits write
DigitsValue(s) ==
    IF Len(s) = 0 THEN 0
    ELSE 10 * DigitsValue(SubSeq(s, 1, Len(s) - 1))
            + (CHOOSE d \in 0..9 : HexDigit[d + 1] = s[Len(s)])

\* the characters int() skips before and after the number, among those a
\* string of this module can hold (up to U+00FF): space, tab, line feed,
\* vertical tab, form feed, carriage return, next line (U+0085) and
\* no-break space (U+00A0); vertical tab and the last two are written as
\* the characters themselves. The separators \x1c to \x1f, which
\* str.strip() removes, are not skipped by int(); of the characters up to
\* U+00FF only '0' to '9' are decimal digits for int()
Whitespace == {" ", "\t", "\n", "", "\f", "\r", "", " "}

RECURSIVE Unpadded(_)
\* s without the whitespace int() skips before and after the number
Unpadded(s) ==
    IF Len(s) > 0 /\ s[1] \in Whitespace THEN Unpadded(Tail(s))
    ELSE IF Len(s) > 0 /\ s[Len(s)] \in Whitespace
    THEN Unpadded(SubSeq(s, 1, Len(s) - 1))
    ELSE s

\* int(s) of a str: surrounding whitespace is skipped; what is left is an
\* optional sign and decimal digits, with single underscores allowed
\* between digits; ValueError otherwise
int(s) ==
    LET body == Unpadded(s)
        signed == Len(body) > 0 /\ body[1] \in {"-", "+"}
        digits == IF signed THEN Tail(body) ELSE body
        IsDigit(ch) == \E d \in 0..9 : HexDigit[d + 1] = ch
        plain == SelectSeq(digits, LAMBDA ch : ch # "_")
    IN  IF /\ Len(digits) > 0
           /\ \A i \in DOMAIN digits : IsDigit(digits[i]) \/ digits[i] = "_"
           /\ IsDigit(digits[1]) /\ IsDigit(digits[Len(digits)])
           /\ \A i \in 1..(Len(digits) - 1) : ~(digits[i] = "_" /\ digits[i + 1] = "_")
        THEN [ok |-> TRUE, v |-> IF signed /\ body[1] = "-" THEN 0 - DigitsValue(plain)
                                 ELSE DigitsValue(plain)]
        ELSE [ok |-> FALSE, v |-> 0]

\* the slice l[:limit] of a list
SliceTo(l, limit) ==
    IF limit >= 0 THEN SubSeq(l, 1, IF limit < Len(l) THEN limit ELSE Len(l))
    ELSE SubSeq(l, 1, Len(l) + limit)

\* the entry search returns when anything went wrong
TooManyResults ==
    <<[id |-> <<"Too many results...">>, name |-> <<"Refine your query">>]>>

\* auth.searchUsers(term) or auth.searchGroups(term): the method of the
\* subclass searches the backend and finds env.found entries or fails, the
\* inherited one is the base method
searchBackend(auth, name, kind, env) ==
    IF name \in auth.overrides
    THEN IF env.fails THEN OgRaise(Exc("Exception", 0, <<"backend">>))
         ELSE OgReturn([i \in 1..env.found |->
                          [id |-> <<kind>> \o DecDigits(i),
                           name |-> <<"name">> \o DecDigits(i)]])
    ELSE IF env.base = "raises" THEN OgRaise(Exc("NotImplementedError", 0, <<>>))
         ELSE OgReturn(<<>>)

\* the except clause of search: whatever was raised, the entry is returned
Caught(e, calls) ==
    [res |-> OgReturn(TooManyResults), caught |-> e, calls |-> calls]

\* search once type, term and limit are read: the capability test, then
\* the search method of the type and the slice of its results
searchChecked(type_, term, limit, auth, env) ==
    IF ~canDoSearch(type_, auth) THEN Caught(Exc("RequestError", 0, <<"notSupported">>), <<>>)
    ELSE LET name == IF type_ = "user" THEN "searchUsers" ELSE "searchGroups"
             r == searchBackend(auth, name, type_, env)
         IN  IF r.out = "raise" THEN Caught(r.exc, <<<<name, term>>>>)
             ELSE [res |-> OgReturn(SliceTo(r.value, limit)), caught |-> NoExc,
                   calls |-> <<<<name, term>>>>]

\* the try block of search
searchTried(params, auth, env) ==
    IF "type" \notin DOMAIN params THEN Caught(Exc("KeyError", 0, <<"type">>), <<>>)
    ELSE IF params["type"] \notin {"user", "group"}
    THEN Caught(Exc("RequestError", 0, <<"invalidRequest">>), <<>>)
    ELSE IF "term" \notin DOMAIN params THEN Caught(Exc("KeyError", 0, <<"term">>), <<>>)
    ELSE LET limit == int(IF "limit" \in DOMAIN params THEN params["limit"]
                          ELSE <<"5", "0">>)
         IN  IF ~limit.ok
             THEN Caught(Exc("ValueError", 0, <<"invalid literal for int()">>), <<>>)
             ELSE searchChecked(params["type"], params["term"], limit.v, auth, env)

\* Authenticators.search: the access check is outside the try
search(params, auth, env) ==
    IF ~env.canRead
    THEN [res |-> OgRaise(Exc("AccessDenied", 0, <<>>)), caught |-> NoExc, calls |-> <<>>]
    ELSE searchTried(params, auth, env)

\* an afterSave that takes a null 'networks' for an empty list
afterSaveClearing(networks, params) ==
    IF "networks" \notin DOMAIN params THEN networks
    ELSE IF params["networks"] = PyNone THEN {}
    ELSE {n \in Networks : \E i \in DOMAIN params["networks"].v : params["networks"].v[i] = n}

\* Authenticators.afterSave: the networks of the item after the save
afterSave(networks, params) ==
    IF "networks" \notin DOMAIN params THEN networks
    ELSE IF params["networks"] = PyNone THEN networks
    ELSE {n \in Networks : \E i \in DOMAIN params["networks"].v : params["networks"].v[i] = n}

\* user.userServices.all(): the instances of a user, in order
OwnedBy(svc, user) ==
    SelectSeq([i \in DOMAIN Machines |-> i], LAMBDA i : svc[i].user = user)

\* the loop of deleteItem over the instances still to release: the owner is
\* cleared, removeOrCancel is called, and an exception of it ends the loop
RECURSIVE releaseAll(_, _, _, _)
releaseAll(svc, todo, failing, calls) ==
    IF todo = <<>> THEN [svc |-> svc, calls |-> calls, res |-> OgReturn(PyNone)]
    ELSE IF Head(todo) = failing
    THEN [svc |-> [svc EXCEPT ![Head(todo)].user = "None"],
          calls |-> calls \o <<<<"user = None", Machines[Head(todo)]>>,
                               <<"removeOrCancel", Machines[Head(todo)]>>>>,
          res |-> OgRaise(Exc("Exception", 0, <<"removeOrCancel">>))]
    ELSE releaseAll([svc EXCEPT ![Head(todo)] = [user |-> "None", released |-> TRUE]],
                    Tail(todo), failing,
                    calls \o <<<<"user = None", Machines[Head(todo)]>>,
                               <<"removeOrCancel", Machines[Head(todo)]>>>>)

\* what an operation on the authenticator did
AuthOp(op, input, res, caught, calls, before) ==
    [op |-> op, input |-> input, out |-> res.out, exc |-> res.exc,
     value |-> res.value, caught |-> caught, calls |-> calls, before |-> before]

\* a deletion that deletes the authenticator even when a release failed
deleteItemAnyway(a, todo, r) ==
    [a EXCEPT !.exists = FALSE, !.svc = r.svc, !.nops = @ + 1,
              !.last = AuthOp("deleteItem", <<>>, r.res, NoExc,
                              r.calls \o <<<<"delete", "item">>>>,
                              {todo[i] : i \in DOMAIN todo})]

\* deleteItem after its loop over todo: item.delete() only when the loop
\* ended
deleteItemReleased(a, todo, r) ==
    IF r.res.out = "raise"
    THEN [a EXCEPT !.svc = r.svc, !.nops = @ + 1,
                   !.last = AuthOp("deleteItem", <<>>, r.res, NoExc, r.calls,
                                   {todo[i] : i \in DOMAIN todo})]
    ELSE [a EXCEPT !.exists = FALSE, !.svc = r.svc, !.nops = @ + 1,
                   !.last = AuthOp("deleteItem", <<>>, r.res, NoExc,
                                   r.calls \o <<<<"delete", "item">>>>,
                                   {todo[i] : i \in DOMAIN todo})]

\* Authenticators.deleteItem: the loop over the instances of the users of
\* item.users.all(), then the deletion
deleteItem(a, failing) ==
    LET todo == OwnedBy(a.svc, AuthUsers[1]) \o OwnedBy(a.svc, AuthUsers[2])
    IN  deleteItemReleased(a, todo, releaseAll(a.svc, todo, failing, <<>>))

-----------------------------------------------------------------------------
(* The authenticator operated through the REST handler *)

\* self._params of a search: the keys that were sent
SearchParams(type_, term, limit) ==
    (IF type_ # "absent" THEN "type" :> type_ ELSE <<>>)
        @@ (IF term # "absent" THEN "term" :> term ELSE <<>>)
        @@ (IF limit # <<"absent">> THEN "limit" :> limit ELSE <<>>)

\* the searches made: their parameters, and what they meet: the permission
\* of the caller, the backend of the authenticator (how many entries match,
\* whether it fails), what the base method does when it is the one called
SearchInputs ==
    {[params |-> SearchParams(t, "x", l),
      env |-> [canRead |-> TRUE, fails |-> FALSE, found |-> 3, base |-> b]] :
        t \in {"user", "group"},
        l \in {<<"absent">>, <<"2">>, <<"0">>, <<"-", "1">>},
        b \in {"empty", "raises"}}
    \cup {[params |-> SearchParams(t, "x", <<"absent">>),
           env |-> [canRead |-> TRUE, fails |-> f, found |-> n, base |-> "empty"]] :
            t \in {"user", "group"}, f \in BOOLEAN, n \in {0, 51}}
    \cup {[params |-> p,
           env |-> [canRead |-> TRUE, fails |-> FALSE, found |-> 3, base |-> "empty"]] :
            p \in {SearchParams("absent", "x", <<"absent">>),
                   SearchParams("other", "x", <<"absent">>),
                   SearchParams("user", "absent", <<"absent">>),
                   SearchParams("user", "x", <<"a", "b", "c">>),
                   SearchParams("group", "x", <<>>)}}
    \cup {[params |-> SearchParams("user", "x", l),
           env |-> [canRead |-> TRUE, fails |-> FALSE, found |-> 3, base |-> "empty"]] :
            l \in {<<" ", "2">>, <<"2", " ">>, <<"\t", "+", "2", "\n">>,
                   <<"1", "_", "0">>, <<"1", "_", "_", "0">>, <<"_", "1">>,
                   <<"-", " ", "1">>, <<" ">>,
                   <<"\f", "2">>, <<"2", "">>, <<"", "\f">>,
                   <<" ", "3">>, <<"2", "">>,
                   <<"", "-", "1", " ">>, <<"", "2">>,
                   <<"2", " ", "2">>, <<"²">>}}
    \cup {[params |-> SearchParams("user", "x", <<"absent">>),
           env |-> [canRead |-> FALSE, fails |-> FALSE, found |-> 3, base |-> "empty"]]}

\* a search in the authenticator
Search ==
    /\ au.exists /\ au.nops < MaxOps
    /\ \E in \in SearchInputs :
         LET r == search(in.params, au.type, in.env)
         IN  au' = [au EXCEPT !.nops = @ + 1,
                              !.last = AuthOp("search", in, r.res, r.caught, r.calls, {})]
    /\ UNCHANGED <<inst, cache, tickets, nreq, last, pending, avail, hist, proc, poll, twin, og, mw>>

\* an authenticator is saved and afterSave runs: the request has no
\* networks, null, or a list of ids
AfterSave ==
    /\ au.exists /\ au.nops < MaxOps
    /\ \E params \in {<<>>, "networks" :> PyNone}
                     \cup {"networks" :> PyList(l) :
                             l \in {<<>>, <<"n1">>, <<"n2", "n1">>, <<"n9", "n2">>,
                                    <<"n1", "n1">>}} :
         au' = [au EXCEPT !.networks = afterSave(@, params),
                          !.nops = @ + 1,
                          !.last = AuthOp("afterSave", params, OgReturn(PyNone), NoExc,
                                          <<>>, au.networks)]
    /\ UNCHANGED <<inst, cache, tickets, nreq, last, pending, avail, hist, proc, poll, twin, og, mw>>

\* the authenticator is deleted; removeOrCancel fails for no instance
\* (0) or for one of them
DeleteItem ==
    /\ au.exists /\ au.nops < MaxOps
    /\ \E failing \in 0..Len(Machines) : au' = deleteItem(au, failing)
    /\ UNCHANGED <<inst, cache, tickets, nreq, last, pending, avail, hist, proc, poll, twin, og, mw>>

\* the authenticator types
AuthTypes == {AuthType(o) : o \in SUBSET {"searchUsers", "searchGroups"}}

\* typeInfo is asked about a type
TypeInfo ==
    /\ au.exists /\ au.nops < MaxOps
    /\ \E type_ \in AuthTypes \cup {AuthType({"createUser"}),
                                    [cls |-> "Module", overrides |-> {},
                                     authenticator |-> FALSE]} :
         au' = [au EXCEPT !.nops = @ + 1,
                          !.last = AuthOp("typeInfo", type_, OgReturn(typeInfo(type_)),
                                          NoExc, <<>>, {})]
    /\ UNCHANGED <<inst, cache, tickets, nreq, last, pending, avail, hist, proc, poll, twin, og, mw>>

\* authenticators of the four types, with the instances of their users
InitAuth ==
    /\ InitBroker
    /\ og = OpenGnsysClient(FAKE)
    /\ au \in {Authenticator(t, o, n) :
                t \in AuthTypes,
                o \in {<<"ua", "ua", "ub">>, <<"ub", "uz", "ua">>, <<"None", "uz", "None">>},
                n \in {{}, {"n1"}}}
    /\ mw = RedirectMiddleware(NO_REDIRECT)

NextAuth == Search \/ AfterSave \/ DeleteItem \/ TypeInfo

SpecAuth == InitAuth /\ [][NextAuth]_vars

-----------------------------------------------------------------------------
(* Properties of the authenticators handler *)

\* the last operation was a search that passed the access check
Searched == au.last.op = "search" /\ au.last.input.env.canRead

SearchType == au.last.input.params["type"]

CalledMethods == {au.last.calls[i][1] : i \in DOMAIN au.last.calls}

\* C25 as claimed: search calls searchUsers only for an authenticator that
\* overrides it and searchGroups only for one that overrides it; a search of
\* a type whose capability is not implemented calls neither and is answered
\* as not supported.
C25_AsClaimed ==
    Searched =>
        /\ "searchUsers" \in CalledMethods => "searchUsers" \in au.type.overrides
        /\ "searchGroups" \in CalledMethods => "searchGroups" \in au.type.overrides
        /\ ("type" \in DOMAIN au.last.input.params
              /\ "term" \in DOMAIN au.last.input.params
              /\ \/ SearchType = "user" /\ "searchUsers" \notin au.type.overrides
                 \/ SearchType = "group" /\ "searchGroups" \notin au.type.overrides)
           => au.last.calls = <<>> /\ au.last.value = TooManyResults

\* the limit of the last search, when it has one that int() accepts
SearchLimit ==
    int(IF "limit" \in DOMAIN au.last.input.params
        THEN au.last.input.params["limit"] ELSE <<"5", "0">>)

\* the search went through: nothing was raised inside the try
SearchSucceeded == Searched /\ au.last.caught = NoExc

\* C26 as claimed: a search that passed the access check always returns;
\* whatever is raised on the way gives the placeholder entry alone; a search
\* that succeeds returns at most 'limit' entries, 50 without a limit.
C26_AsClaimed ==
    Searched =>
        /\ au.last.out = "return"
        /\ au.last.caught # NoExc => au.last.value = TooManyResults
        /\ SearchSucceeded => Len(au.last.value) <= SearchLimit.v

\* call c comes before call d in the calls of the last operation
CallBefore(c, d) ==
    \E i, j \in DOMAIN au.last.calls :
        i < j /\ au.last.calls[i] = c /\ au.last.calls[j] = d

DeleteCalled == \E i \in DOMAIN au.last.calls : au.last.calls[i] = <<"delete", "item">>

\* C27: deleting an authenticator clears the owner of every instance of
\* every one of its users and asks for its removal or cancellation before
\* the authenticator record is deleted; when releasing an instance fails,
\* the failure leaves deleteItem and the record is not deleted.
C27_ReleaseBeforeDelete ==
    au.last.op = "deleteItem" =>
        /\ au.last.out = "raise" => au.exists /\ ~DeleteCalled
        /\ au.last.out = "return" => ~au.exists /\ DeleteCalled
        /\ DeleteCalled =>
             \A m \in au.last.before :
                /\ au.svc[m].user = "None"
                /\ au.svc[m].released
                /\ CallBefore(<<"user = None", Machines[m]>>,
                              <<"removeOrCancel", Machines[m]>>)
                /\ CallBefore(<<"removeOrCancel", Machines[m]>>, <<"delete", "item">>)

\* an authenticator deleted after the three instances of its two users
\* were released
C27_Witness ==
    /\ au.last.op = "deleteItem"
    /\ ~au.exists
    /\ au.last.before = {1, 2, 3}
    /\ Len(au.last.calls) = 7
    /\ \A m \in DOMAIN au.svc : au.svc[m].released

\* the ids listed in the 'networks' parameter of the last save
ListedNetworks ==
    {au.last.input["networks"].v[i] : i \in DOMAIN au.last.input["networks"].v}

\* C28: afterSave leaves the networks of the authenticator as they were
\* when the request has no 'networks' parameter or has it as null;
\* otherwise the networks become exactly the existing networks whose ids
\* are listed, none for an empty list.
C28_Networks ==
    au.last.op = "afterSave" =>
        IF "networks" \notin DOMAIN au.last.input THEN au.networks = au.last.before
        ELSE IF au.last.input["networks"].t = "none" THEN au.networks = au.last.before
        ELSE au.networks = ListedNetworks \cap Networks

\* a save listing an unknown id and n2 replaced the network n1 by n2
C28_Witness ==
    /\ au.last.op = "afterSave"
    /\ au.last.before = {"n1"}
    /\ "networks" \in DOMAIN au.last.input
    /\ au.last.input["networks"] = PyList(<<"n9", "n2">>)
    /\ au.networks = {"n2"}

-----------------------------------------------------------------------------
(* The redirect middleware *)

\* s.startswith(prefix)
startswith(s, prefix) ==
    Len(prefix) <= Len(s) /\ SubSeq(s, 1, Len(prefix)) = prefix

RECURSIVE replace(_, _, _)
\* s.replace(old, new): every occurrence, from the left
replace(s, old, new) ==
    IF Len(s) = 0 THEN s
    ELSE IF startswith(s, old)
    THEN new \o replace(SubSeq(s, Len(old) + 1, Len(s)), old, new)
    ELSE <<Head(s)>> \o replace(Tail(s), old, new)

Http == <<"h", "t", "t", "p", ":", "/", "/">>
Https == <<"h", "t", "t", "p", "s", ":", "/", "/">>
Host == <<"u", "d", "s", ".", "e", "x", "a", "m", "p", "l", "e">>

\* reverse('page.login'): the path of the login page
LoginPage == <<"/", "u", "d", "s", "/", "p", "a", "g", "e", "/", "l", "o", "g", "i", "n">>

\* request.build_absolute_uri(full_path): scheme, host and the path
build_absolute_uri(request) ==
    (IF request.secure THEN Https ELSE Http) \o Host \o request.path

\* the loop of __call__ over NO_REDIRECT: FALSE as soon as the path starts
\* with '/' + nr for an entry nr
redirect(noRedirect, full_path) ==
    ~\E i \in DOMAIN noRedirect : startswith(full_path, Slash \o noRedirect[i])

\* self.get_response(request): the answer of the next handler
get_response(instance, request) == <<"response", instance, request.path>>

\* what a request through an instance gave
Passed(instance, request, setting, noRedirect, out, url, passed, response) ==
    [instance |-> instance, path |-> request.path, secure |-> request.secure,
     method |-> request.method, setting |-> setting, list |-> noRedirect,
     out |-> out, url |-> url, passed |-> passed, response |-> response]

\* RedirectMiddleware.__call__
__call__(instance, request, setting, noRedirect) ==
    IF redirect(noRedirect, request.path) /\ ~request.secure /\ setting
    THEN Passed(instance, request, setting, noRedirect, "redirect",
                replace(IF request.method = "POST" THEN LoginPage
                        ELSE build_absolute_uri(request), Http, Https), 0, <<>>)
    ELSE Passed(instance, request, setting, noRedirect, "pass", <<>>, 1,
                get_response(instance, request))

\* a registration that starts again from the list of the class as loaded
registerExceptionFresh(noRedirect, path) == NO_REDIRECT \o <<path>>

\* RedirectMiddleware.registerException
registerException(noRedirect, path) == noRedirect \o <<path>>

-----------------------------------------------------------------------------
(* Requests through the middleware *)

\* request.get_full_path() of the requests made
FullPaths ==
    {<<"/", "r", "e", "s", "t", "/", "a", "p", "i">>,
     <<"/", "r", "e", "s", "t", "a", "u", "r", "a", "n", "t">>,
     <<"/", "u", "d", "s", "/", "r", "e", "s", "t", "/", "a", "u", "t", "h">>,
     <<"/", "u", "d", "s", "/", "r", "e", "s", "t", "/", "t", "u", "n", "n", "e", "l", "/", "t">>,
     <<"/", "u", "d", "s", "/", "p", "a", "g", "e", "/", "l", "o", "g", "i", "n">>,
     <<"/">>,
     <<"/", "c", "u", "s", "t", "o", "m", "/", "a">>,
     <<"/", "g", "o", "?", "u", "=", "h", "t", "t", "p", ":", "/", "/", "a">>}

\* a request goes through one of the instances of the middleware
Pass ==
    /\ \E instance \in {1, 2} :
       \E request \in [path : FullPaths, secure : BOOLEAN, method : {"GET", "POST"}] :
       \E setting \in BOOLEAN :
         mw' = [mw EXCEPT !.last = __call__(instance, request, setting, mw.NO_REDIRECT)]
    /\ UNCHANGED <<inst, cache, tickets, nreq, last, pending, avail, hist, proc, poll, twin, og, au>>

\* a module registers a path: 'custom' or 'uds/rest'
Register ==
    /\ Len(mw.NO_REDIRECT) < Len(NO_REDIRECT) + MaxRegistered
    /\ \E path \in {<<"c", "u", "s", "t", "o", "m">>,
                     <<"u", "d", "s", "/", "r", "e", "s", "t">>} :
         mw' = [mw EXCEPT !.NO_REDIRECT = registerException(@, path),
                          !.registered = @ \cup {path}]
    /\ UNCHANGED <<inst, cache, tickets, nreq, last, pending, avail, hist, proc, poll, twin, og, au>>

NextRedirect == Pass \/ Register

SpecRedirect == Init /\ [][NextRedirect]_vars

-----------------------------------------------------------------------------
(* Properties of the redirect middleware *)

\* the path of the last request starts with '/' + an entry of the list
\* the request met
Exempt ==
    \E i \in DOMAIN mw.last.list :
        /\ Len(mw.last.path) >= Len(mw.last.list[i]) + 1
        /\ mw.last.path[1] = "/"
        /\ \A k \in DOMAIN mw.last.list[i] : mw.last.path[k + 1] = mw.last.list[i][k]

\* the request is answered with the redirect exactly when its full path
\* starts with none of the '/'-prefixed entries of the list, it is not
\* secure and the setting is on; every other request is handed to the next
\* handler once and that handler's answer is returned; a secure request is
\* never redirected
RedirectDecided ==
    mw.last.out # "none" =>
        /\ mw.last.out = "redirect" <=> (~Exempt /\ ~mw.last.secure /\ mw.last.setting)
        /\ mw.last.out = "redirect" => mw.last.passed = 0
        /\ mw.last.out # "redirect" =>
             /\ mw.last.out = "pass"
             /\ mw.last.passed = 1
             /\ mw.last.response = <<"response", mw.last.instance, mw.last.path>>
        /\ mw.last.secure => mw.last.out = "pass"

\* the redirect goes to an https address
RedirectsToHttps == mw.last.out = "redirect" => startswith(mw.last.url, Https)

\* C29 as claimed: a request is answered with a redirect to HTTPS exactly
\* when its full path starts with none of the '/'-prefixed entries of the
\* list, it is not secure and the setting is on; every other request is
\* handed to the next handler once and that handler's answer is returned; a
\* secure request is never redirected.
C29_AsClaimed == RedirectDecided /\ RedirectsToHttps

\* every redirect of a request that is not a POST goes to the https
\* address of the host
GetRedirectsToHttps ==
    (mw.last.out = "redirect" /\ mw.last.method # "POST") =>
        startswith(mw.last.url, Https \o Host)

\* a request goes through the middleware in this step
Passes == mw'.last # mw.last

\* C30: the list only grows: no entry is removed or changed; and once a
\* path p is registered, a request through any instance whose full path
\* starts with '/' + p is never redirected.
C30_ListGrows ==
    /\ [][/\ Len(mw'.NO_REDIRECT) >= Len(mw.NO_REDIRECT)
          /\ \A i \in DOMAIN mw.NO_REDIRECT : mw'.NO_REDIRECT[i] = mw.NO_REDIRECT[i]]_vars
    /\ [][Passes =>
            \A p \in mw.registered :
                startswith(mw'.last.path, Slash \o p) => mw'.last.out = "pass"]_vars
    /\ [](\A p \in mw.registered : \E i \in DOMAIN mw.NO_REDIRECT : mw.NO_REDIRECT[i] = p)

\* after 'custom' and then 'uds/rest' were registered, a request for
\* '/custom/a' over http with the setting on went to the next handler
C30_Witness ==
    /\ Len(mw.NO_REDIRECT) = Len(NO_REDIRECT) + 2
    /\ mw.NO_REDIRECT[Len(NO_REDIRECT) + 1] = <<"c", "u", "s", "t", "o", "m">>
    /\ mw.NO_REDIRECT[Len(NO_REDIRECT) + 2] = <<"u", "d", "s", "/", "r", "e", "s", "t">>
    /\ mw.last.path = <<"/", "c", "u", "s", "t", "o", "m", "/", "a">>
    /\ mw.last.list = mw.NO_REDIRECT
    /\ ~mw.last.secure /\ mw.last.setting
    /\ mw.last.out = "pass"

=============================================================================
